---- MODULE Spec2Model ----
(***************************************************************************)
(* Model of pi-perplexity's streaming search core:                         *)
(*   - src/search/stream.ts  (readSseEvents, mergeMarkdownBlock,           *)
(*     mergeSingleBlock, mergeBlocks, mergeEvent)                          *)
(*   - src/search/client.ts  (searchPerplexity and its helpers)            *)
(*                                                                         *)
(* Conventions.                                                            *)
(*   A JavaScript object is a TLA+ function whose DOMAIN is the set of     *)
(*   keys holding a value that is neither undefined nor null; `a ?? b` is  *)
(*   therefore a test on DOMAIN.  Text that the code slices, trims, joins  *)
(*   or scans is a sequence of one-character strings; opaque scalars       *)
(*   (status, error_code, uuid, ...) are TLA+ strings, "" being the empty, *)
(*   falsy string.                                                         *)
(***************************************************************************)
EXTENDS Integers, Sequences, FiniteSets, TLC

VARIABLES
    mdExisting,   \* mergeMarkdownBlock: its `existing` argument
    mdIncoming,   \* mergeMarkdownBlock: its `incoming` argument
    mdMerged,     \* mergeMarkdownBlock: the value returned
    mdApplied,    \* TRUE once mergeMarkdownBlock has been applied
    snapshot,     \* the accumulated StreamEvent of a fold / of searchPerplexity
    prevSnapshot, \* history: snapshot before the latest mergeEvent
    lastIncoming, \* history: the event given to the latest mergeEvent
    folded,       \* history: number of mergeEvent calls so far
    srcConcat,    \* history: the merged events' sources_list values, concatenated
    mergedEvents, \* history: the events merged by a fold of scalar fields, in order
    input,        \* the whole text the byte stream delivers
    body,         \* the part of the byte stream not yet read
    bufferedText, \* readSseEvents: bufferedText
    dataLines,    \* readSseEvents: dataLines
    rpc,          \* readSseEvents: "idle" | "read" | "yield" | "tailYield" | "end"
    locked,       \* the reader obtained by body.getReader() holds its lock
    raised,       \* readSseEvents ended by throwing (a failed read)
    aborted,      \* signal.aborted
    yielded,      \* history: the events yielded, in order
    flushed,      \* history: the payloads joined by flushEvent, in order
    spc,          \* searchPerplexity: "off" | "idle" | "fetch" | "stream" | "done"
    useBun,       \* searchPerplexity: useBunSubprocess
    requests,     \* number of outbound requests sent
    response,     \* the response received: its status, whether it has a body
    outcome,      \* what searchPerplexity returned or threw
    exEvent,      \* extractAnswer / extractSources: the `event` argument
    exAnswer,     \* extractAnswer: the value returned
    exSources,    \* extractSources: the value returned
    exApplied,    \* TRUE once both have been applied to exEvent
    ddSources,    \* dedupeSourcesByUrl: its `sources` argument
    ddDeduped,    \* dedupeSourcesByUrl: the value returned
    ddApplied,    \* TRUE once dedupeSourcesByUrl has been applied
    now,          \* Date.now(), in units of five minutes
    store,        \* the token store: <<>> or <<the StoredToken>>
    borrowDisabled, \* process.env.PI_AUTH_NO_BORROW === "1"
    apc,          \* authenticate: "off" | "idle" | "load" | "borrow" | "email" | "returned" | "threw"
    caller,       \* who awaits authenticate: "tool" | "command"
    sawExpiredToken, \* authenticate: sawExpiredToken
    desktopToken, \* authenticate: desktopToken, <<>> for null
    authCalls,    \* history: the collaborators authenticate has called, in order
    authResult,   \* what authenticate returned or threw
    loadedAt,     \* history: the instant of the latest loadToken()
    storeAtCall,  \* history: the token store when authenticate was called
    tpc,          \* execute of perplexity_search: "off" | "idle" | "auth" | "search" | "done"
    toolOut,      \* the text execute returned
    rejected,     \* history: the token store when the latest search failed with AUTH
    toolAborted,  \* signal.aborted of the execution under way
    isError,      \* details.isError of what execute returned
    searched,     \* history: the token each searchPerplexity call of the execution got
    commandArgs,  \* history: `args` of the latest /perplexity-login, split at white space
    given,        \* per invocation: the status and the events its own response delivers
    cpc,          \* per invocation: "off" | "idle" | "stream" | "done"
    pending,      \* per invocation: the events its decoder has not yielded yet
    snapshots,    \* per invocation: its local `snapshot`
    outcomes,     \* per invocation: what it returned or threw
    heap,         \* the objects and arrays allocated so far, by address
    accRef,       \* the address of the accumulated event
    incRef,       \* history: the address of the event given to the latest mergeEvent
    prevHeap,     \* history: the heap when the latest mergeEvent was called
    prevAccRef,   \* history: the address of its accumulated argument
    merges,       \* history: number of mergeEvent calls made on the heap
    processEnv,   \* process.env: PI_PERPLEXITY_EMAIL and PI_PERPLEXITY_OTP
    options,      \* AuthenticateOptions: what promptForEmail and promptForOtp resolve to
    emailGiven,   \* `email` of authenticate
    otpCode,      \* `otp` of loginWithEmailOtp
    cookieJar,    \* `cookieJar` of loginWithEmailOtp
    fetches,      \* history: the requests of loginWithEmailOtp with what each got
    prompted,     \* history: the prompts invoked
    loginSettled, \* history: how loginWithEmailOtp settled
    searchParams, \* `params` of searchPerplexity
    requestBody   \* the body of the request as it is sent: JSON.stringify(requestBody)

mdVars     == <<mdExisting, mdIncoming, mdMerged, mdApplied>>
foldVars   == <<snapshot, prevSnapshot, lastIncoming, folded, srcConcat, mergedEvents>>
readerVars == <<bufferedText, dataLines, rpc, locked, raised, yielded, flushed>>
streamVars == <<input, body, readerVars, aborted>>
searchVars == <<spc, useBun, requests, response, outcome>>
extractVars == <<exEvent, exAnswer, exSources, exApplied, ddSources, ddDeduped, ddApplied>>
authLocals == <<apc, caller, sawExpiredToken, desktopToken, authCalls, authResult, loadedAt,
                storeAtCall>>
toolVars   == <<tpc, toolOut, rejected, toolAborted, isError, searched, commandArgs>>
authVars   == <<now, store, borrowDisabled, authLocals, toolVars>>
pairVars   == <<given, cpc, pending, snapshots, outcomes>>
heapVars   == <<heap, accRef, incRef, prevHeap, prevAccRef, merges>>
otpVars    == <<processEnv, options, emailGiven, otpCode, cookieJar, fetches, prompted,
               loginSettled>>
bodyVars   == <<searchParams, requestBody>>
vars       == <<mdVars, foldVars, streamVars, searchVars, extractVars, authVars, pairVars,
               heapVars, otpVars, bodyVars>>

(***************************************************************************)
(* Bounds of the model.                                                    *)
(***************************************************************************)
MaxChunkList == 2      \* longest chunk list of a MarkdownPayload drawn as input
MaxOffset    == 3      \* largest chunk_starting_offset drawn as input
MaxFold      == 3      \* number of events folded with mergeEvent
MaxItems     == 3      \* number of pieces a stream text of the decoder is made of
MaxChunk     == 3      \* longest partial chunk one reader.read() delivers
MaxPieces    == 2      \* number of pieces of a stream text read under every chunking
MaxFrames    == 3      \* number of frames a stream text of a search is made of
MaxSources   == 3      \* longest source list given to dedupeSourcesByUrl
MaxExtractBlocks == 2  \* most blocks of a snapshot given to the extraction
MaxNow       == 13     \* latest instant the clock reaches, in units of five minutes

(***************************************************************************)
(* JavaScript helpers.                                                     *)
(***************************************************************************)
\* The object {} .
EmptyObject == [k \in {} |-> TRUE]

\* The least number of a set of numbers.
First(S) == CHOOSE i \in S : \A j \in S : i <= j

\* a.k is neither undefined nor null.
Has(a, k) == k \in DOMAIN a

\* { ...a, ...b }
Spread(a, b) ==
    [k \in DOMAIN a \cup DOMAIN b |-> IF k \in DOMAIN b THEN b[k] ELSE a[k]]

\* { ...a, [k]: v }
With(a, k, v) == [j \in DOMAIN a \cup {k} |-> IF j = k THEN v ELSE a[j]]

\* { ...a } without key k (the key set to undefined).
Without(a, k) == [j \in DOMAIN a \ {k} |-> a[j]]

\* a.k ?? d
OrElse(a, k, d) == IF Has(a, k) THEN a[k] ELSE d

Min(a, b) == IF a < b THEN a ELSE b

\* Array.prototype.slice(0, n) for an integer n >= 0.
SliceTo(s, n) == SubSeq(s, 1, Min(n, Len(s)))

\* Array.prototype.join("") over an array of strings.
RECURSIVE JoinEmpty(_)
JoinEmpty(chunks) ==
    IF chunks = <<>> THEN <<>>
    ELSE Head(chunks) \o JoinEmpty(Tail(chunks))

\* Array.prototype.findIndex, 1-based; 0 when nothing matches (-1 in the code).
RECURSIVE FindIndexFrom(_, _, _)
FindIndexFrom(blocks, usage, i) ==
    IF i > Len(blocks) THEN 0
    ELSE IF Has(blocks[i], "intended_usage") /\ blocks[i].intended_usage = usage THEN i
    ELSE FindIndexFrom(blocks, usage, i + 1)

FindIndex(blocks, usage) == FindIndexFrom(blocks, usage, 1)

(***************************************************************************)
(* stream.ts: mergeMarkdownBlock                                           *)
(***************************************************************************)
\* Mutant of MergedChunks: a positive offset appends to all accumulated chunks.
MergedChunksAppendAll(existing, incoming) ==
    LET currentChunks == OrElse(existing, "chunks", <<>>)
    IN  IF Has(incoming, "chunks")
        THEN IF Has(incoming, "chunk_starting_offset")
                  /\ incoming.chunk_starting_offset > 0
             THEN currentChunks \o incoming.chunks
             ELSE incoming.chunks
        ELSE currentChunks

\* Lines 106-122: the merged chunk list.
MergedChunks(existing, incoming) ==
    LET currentChunks == OrElse(existing, "chunks", <<>>)
    IN  IF Has(incoming, "chunks")
        THEN IF Has(incoming, "chunk_starting_offset")
             THEN IF incoming.chunk_starting_offset <= 0
                  THEN incoming.chunks
                  ELSE SliceTo(currentChunks, incoming.chunk_starting_offset)
                         \o incoming.chunks
             ELSE incoming.chunks
        ELSE currentChunks

\* Mutant of MergedAnswer: the accumulated answer is preferred to the chunks.
MergedAnswerKeepExisting(existing, incoming, mergedChunks) ==
    IF Has(incoming, "answer") THEN [answer |-> incoming.answer]
    ELSE IF Has(existing, "answer") THEN [answer |-> existing.answer]
    ELSE IF Len(mergedChunks) > 0 THEN [answer |-> JoinEmpty(mergedChunks)]
    ELSE EmptyObject

\* Lines 124-127: the merged answer, as an object holding `answer` or nothing.
MergedAnswer(existing, incoming, mergedChunks) ==
    IF Has(incoming, "answer") THEN [answer |-> incoming.answer]
    ELSE IF Len(mergedChunks) > 0 THEN [answer |-> JoinEmpty(mergedChunks)]
    ELSE IF Has(existing, "answer") THEN [answer |-> existing.answer]
    ELSE EmptyObject

mergeMarkdownBlock(existing, incoming) ==
    LET mergedChunks == MergedChunks(existing, incoming)
        mergedAnswer == MergedAnswer(existing, incoming, mergedChunks)
        spread       == Without(Spread(existing, incoming), "answer")
    IN  With(Spread(spread, mergedAnswer), "chunks", mergedChunks)

(***************************************************************************)
(* stream.ts: mergeSingleBlock, mergeBlocks, mergeEvent                    *)
(***************************************************************************)
\* Lines 150-155: incoming.web_result_block?.web_results ??
\*                existing.web_result_block?.web_results ?? []
MergedWebResults(existing, incoming) ==
    IF Has(incoming, "web_result_block") /\ Has(incoming.web_result_block, "web_results")
    THEN incoming.web_result_block.web_results
    ELSE IF Has(existing, "web_result_block") /\ Has(existing.web_result_block, "web_results")
    THEN existing.web_result_block.web_results
    ELSE <<>>

mergeSingleBlock(existing, incoming) ==
    LET spread == Spread(existing, incoming)
        withMd ==
            IF Has(existing, "markdown_block") \/ Has(incoming, "markdown_block")
            THEN With(spread, "markdown_block",
                      mergeMarkdownBlock(OrElse(existing, "markdown_block", EmptyObject),
                                         OrElse(incoming, "markdown_block", EmptyObject)))
            ELSE spread
    IN  IF Has(existing, "web_result_block") \/ Has(incoming, "web_result_block")
        THEN With(withMd, "web_result_block",
                  [web_results |-> MergedWebResults(existing, incoming)])
        ELSE withMd

\* !incomingBlock.intended_usage : absent, or the empty string.
Unkeyed(block) == ~Has(block, "intended_usage") \/ block.intended_usage = <<>>

\* Mutant of MergeOneBlock: a keyed block is appended without looking for its key.
MergeOneBlockAppend(result, incomingBlock) == Append(result, incomingBlock)

\* Mutant of MergeOneBlock: a new block is put in front of the result.
MergeOneBlockFront(result, incomingBlock) ==
    IF Unkeyed(incomingBlock) THEN <<incomingBlock>> \o result
    ELSE LET index == FindIndex(result, incomingBlock.intended_usage)
         IN  IF index = 0 THEN <<incomingBlock>> \o result
             ELSE [result EXCEPT ![index] = mergeSingleBlock(result[index], incomingBlock)]

\* Lines 167-183: one iteration of the loop over incoming, on the result so far.
MergeOneBlock(result, incomingBlock) ==
    IF Unkeyed(incomingBlock) THEN Append(result, incomingBlock)
    ELSE LET index == FindIndex(result, incomingBlock.intended_usage)
         IN  IF index = 0 THEN Append(result, incomingBlock)
             ELSE [result EXCEPT ![index] = mergeSingleBlock(result[index], incomingBlock)]

RECURSIVE MergeBlocksLoop(_, _)
MergeBlocksLoop(result, incoming) ==
    IF incoming = <<>> THEN result
    ELSE MergeBlocksLoop(MergeOneBlock(result, Head(incoming)), Tail(incoming))

mergeBlocks(existing, incoming) == MergeBlocksLoop(existing, incoming)

\* Mutant of mergeEvent: sources_list is overridden like a scalar field.
mergeEventReplaceSources(existing, incoming) ==
    LET spread == Spread(existing, incoming)
    IN  IF Has(existing, "blocks") \/ Has(incoming, "blocks")
        THEN With(spread, "blocks",
                  mergeBlocks(OrElse(existing, "blocks", <<>>),
                              OrElse(incoming, "blocks", <<>>)))
        ELSE spread

\* Mutant of mergeEvent: an accumulated scalar field is kept, the incoming
\* value filling in only a field not yet set.
mergeEventKeepFirst(existing, incoming) ==
    LET spread == Spread(incoming, existing)
        withBlocks ==
            IF Has(existing, "blocks") \/ Has(incoming, "blocks")
            THEN With(spread, "blocks",
                      mergeBlocks(OrElse(existing, "blocks", <<>>),
                                  OrElse(incoming, "blocks", <<>>)))
            ELSE spread
        existingSources == OrElse(existing, "sources_list", <<>>)
        incomingSources == OrElse(incoming, "sources_list", <<>>)
    IN  IF Len(existingSources) > 0 \/ Len(incomingSources) > 0
        THEN With(withBlocks, "sources_list", existingSources \o incomingSources)
        ELSE withBlocks

mergeEvent(existing, incoming) ==
    LET spread == Spread(existing, incoming)
        withBlocks ==
            IF Has(existing, "blocks") \/ Has(incoming, "blocks")
            THEN With(spread, "blocks",
                      mergeBlocks(OrElse(existing, "blocks", <<>>),
                                  OrElse(incoming, "blocks", <<>>)))
            ELSE spread
        existingSources == OrElse(existing, "sources_list", <<>>)
        incomingSources == OrElse(incoming, "sources_list", <<>>)
    IN  IF Len(existingSources) > 0 \/ Len(incomingSources) > 0
        THEN With(withBlocks, "sources_list", existingSources \o incomingSources)
        ELSE withBlocks

(***************************************************************************)
(* Text: a string is a sequence of one-character strings.                  *)
(***************************************************************************)
NL == "\n"
CR == "\r"
SP == " "

\* The white space String.prototype.trim removes (of the characters modelled).
IsSpace(c) == c \in {SP, NL, CR, "\t"}

RECURSIVE TrimStart(_)
TrimStart(s) ==
    IF s # <<>> /\ IsSpace(Head(s)) THEN TrimStart(Tail(s)) ELSE s

RECURSIVE TrimEnd(_)
TrimEnd(s) ==
    IF s # <<>> /\ IsSpace(s[Len(s)]) THEN TrimEnd(SubSeq(s, 1, Len(s) - 1)) ELSE s

Trim(s) == TrimEnd(TrimStart(s))

StartsWith(s, prefix) ==
    Len(s) >= Len(prefix) /\ SubSeq(s, 1, Len(prefix)) = prefix

EndsWith(s, suffix) ==
    Len(s) >= Len(suffix) /\ SubSeq(s, Len(s) - Len(suffix) + 1, Len(s)) = suffix

\* String.prototype.indexOf(c), 1-based; 0 when c does not occur (-1 in the code).
RECURSIVE IndexFrom(_, _, _)
IndexFrom(s, c, i) ==
    IF i > Len(s) THEN 0
    ELSE IF s[i] = c THEN i
    ELSE IndexFrom(s, c, i + 1)

IndexOf(s, c) == IndexFrom(s, c, 1)

\* Array.prototype.join("\n") over an array of strings.
RECURSIVE JoinNL(_)
JoinNL(lines) ==
    IF lines = <<>> THEN <<>>
    ELSE IF Len(lines) = 1 THEN lines[1]
    ELSE lines[1] \o <<NL>> \o JoinNL(Tail(lines))

\* Two legacy sources (StreamSource: title, url, snippet, date).
SrcA == [title |-> "A", url |-> <<"u", "/", "a">>]
SrcB == [title |-> "B", url |-> <<"u", "/", "b">>]

DataPrefix == <<"d", "a", "t", "a", ":">>
DoneMarker == <<"[", "D", "O", "N", "E", "]">>

(***************************************************************************)
(* JSON.parse on the texts of the model.  Inside an object each member     *)
(* letter abbreviates one complete member ("key": value, with its comma);  *)
(* white space may separate members, as in JSON.                           *)
(***************************************************************************)
MemberChars == {"a", "b", "T", "W", "F", "C", "P", "E", "e", "M", "S"}

MemberOf(c) ==
    CASE c = "a" -> [text |-> <<"a">>]
      [] c = "b" -> [text |-> <<"b">>]
      [] c = "T" -> [text |-> <<"o", "k">>]
      [] c = "W" -> [text |-> <<SP>>]
      [] c = "F" -> [final |-> TRUE]
      [] c = "C" -> [status |-> "COMPLETED"]
      [] c = "P" -> [status |-> "PENDING"]
      [] c = "E" -> [error_code |-> "E1"]
      [] c = "e" -> [error_code |-> ""]
      [] c = "M" -> [error_message |-> "boom"]
      [] c = "S" -> [sources_list |-> <<SrcA>>]

\* The object denoted by a run of member letters and white space; a later
\* member with the same key overrides an earlier one, as JSON.parse does.
RECURSIVE MembersObject(_, _)
MembersObject(inner, acc) ==
    IF inner = <<>> THEN acc
    ELSE IF IsSpace(Head(inner)) THEN MembersObject(Tail(inner), acc)
    ELSE MembersObject(Tail(inner), Spread(acc, MemberOf(Head(inner))))

Inner(t) == SubSeq(t, 2, Len(t) - 1)

\* JSON.parse(t): kind "object" | "array" | "number" | "null" | "error"
\* (error: JSON.parse throws SyntaxError).
JsonParse(t) ==
    IF /\ Len(t) >= 2 /\ t[1] = "{" /\ t[Len(t)] = "}"
       /\ \A i \in 2 .. Len(t) - 1 : t[i] \in MemberChars \/ IsSpace(t[i])
    THEN [kind |-> "object", value |-> MembersObject(Inner(t), EmptyObject)]
    ELSE IF /\ Len(t) >= 2 /\ t[1] = "[" /\ t[Len(t)] = "]"
            /\ \A i \in 2 .. Len(t) - 1 : IsSpace(t[i])
    THEN [kind |-> "array", value |-> EmptyObject]
    ELSE IF t = <<"1">> THEN [kind |-> "number", value |-> EmptyObject]
    ELSE IF t = <<"n", "u", "l", "l">> THEN [kind |-> "null", value |-> EmptyObject]
    ELSE [kind |-> "error", value |-> EmptyObject]

(***************************************************************************)
(* stream.ts: parseEventPayload, flushEvent, the line loop of              *)
(* readSseEvents.                                                          *)
(***************************************************************************)
NoEvent == [kind |-> "null", event |-> EmptyObject]

\* Mutant of parseEventPayload: a payload that is not valid JSON ends the
\* sequence instead of being dropped.
parseEventPayloadStrict(payload) ==
    LET trimmed == Trim(payload)
        parsed  == JsonParse(trimmed)
    IN  IF trimmed = <<>> \/ trimmed = DoneMarker THEN NoEvent
        ELSE IF parsed.kind = "error" THEN [kind |-> "done", event |-> EmptyObject]
        ELSE IF parsed.kind \in {"null", "number"} THEN NoEvent
        ELSE [kind |-> "event", event |-> parsed.value]

\* null, or the parsed StreamEvent.  `!parsed` holds for null, and
\* typeof parsed !== "object" for a number; an array is an object.
parseEventPayload(payload) ==
    LET trimmed == Trim(payload)
        parsed  == JsonParse(trimmed)
    IN  IF trimmed = <<>> \/ trimmed = DoneMarker THEN NoEvent
        ELSE IF parsed.kind = "error" THEN NoEvent
        ELSE IF parsed.kind \in {"null", "number"} THEN NoEvent
        ELSE [kind |-> "event", event |-> parsed.value]

\* Mutant of flushEvent: the [DONE] payload is not recognised.
flushEventNoDone(lines) ==
    IF Len(lines) = 0 THEN NoEvent
    ELSE parseEventPayload(JoinNL(lines))

\* flushEvent() on the current dataLines: kind "null" | "done" | "event".
\* The caller clears dataLines.
flushEvent(lines) ==
    IF Len(lines) = 0 THEN NoEvent
    ELSE LET payload == JoinNL(lines)
         IN  IF Trim(payload) = DoneMarker
             THEN [kind |-> "done", event |-> EmptyObject]
             ELSE parseEventPayload(payload)

\* The payloads flushed so far, with the one flushEvent() joins now (if any).
Flushing(flushedSoFar, lines) ==
    IF Len(lines) = 0 THEN flushedSoFar
    ELSE Append(flushedSoFar, JoinNL(lines))

\* rawLine.endsWith("\r") ? rawLine.slice(0, -1) : rawLine
StripCR(rawLine) ==
    IF EndsWith(rawLine, <<CR>>) THEN SubSeq(rawLine, 1, Len(rawLine) - 1) ELSE rawLine

\* Mutant of DataOf: the white space after the prefix is kept.
DataOfKeepSpace(line) == SubSeq(line, Len(DataPrefix) + 1, Len(line))

\* line.slice(5).trimStart()
DataOf(line) == TrimStart(SubSeq(line, Len(DataPrefix) + 1, Len(line)))

\* Lines 47-50 and 52: back at the top of the read loop, the generator
\* returns when the signal is aborted and issues reader.read() otherwise.
AtLoopTop(buf, dl, fl, isAborted) ==
    [stop |-> IF isAborted THEN "aborted" ELSE "read",
     buf |-> buf, dl |-> dl, fl |-> fl, event |-> EmptyObject]

\* Lines 59-83: the line loop, run until it yields, returns on [DONE], or
\* finds no newline in the buffer (and falls back to the top of the read loop).
RECURSIVE RunLines(_, _, _, _)
RunLines(buf, dl, fl, isAborted) ==
    LET newlineIndex == IndexOf(buf, NL)
    IN  IF newlineIndex = 0 THEN AtLoopTop(buf, dl, fl, isAborted)
        ELSE LET rawLine == SubSeq(buf, 1, newlineIndex - 1)
                 rest    == SubSeq(buf, newlineIndex + 1, Len(buf))
                 line    == StripCR(rawLine)
             IN  IF line = <<>>
                 THEN LET parsed == flushEvent(dl)
                          fl2    == Flushing(fl, dl)
                      IN  IF parsed.kind = "done"
                          THEN [stop |-> "done", buf |-> rest, dl |-> <<>>,
                                fl |-> fl2, event |-> EmptyObject]
                          ELSE IF parsed.kind = "event"
                          THEN [stop |-> "yield", buf |-> rest, dl |-> <<>>,
                                fl |-> fl2, event |-> parsed.event]
                          ELSE RunLines(rest, <<>>, fl2, isAborted)
                 ELSE IF StartsWith(line, DataPrefix)
                 THEN RunLines(rest, Append(dl, DataOf(line)), fl, isAborted)
                 ELSE RunLines(rest, dl, fl, isAborted)

\* Lines 86-95: after the stream ended, the tail of the buffer and the final
\* flush.
RunTail(buf, dl, fl) ==
    LET tail   == Trim(buf)
        dl2    == IF StartsWith(tail, DataPrefix) THEN Append(dl, DataOf(tail)) ELSE dl
        parsed == flushEvent(dl2)
        fl2    == Flushing(fl, dl2)
    IN  IF parsed.kind = "event"
        THEN [stop |-> "tailYield", buf |-> buf, dl |-> <<>>, fl |-> fl2,
              event |-> parsed.event]
        ELSE [stop |-> "end", buf |-> buf, dl |-> <<>>, fl |-> fl2,
              event |-> EmptyObject]

(***************************************************************************)
(* client.ts: normalizeUrl, dedupeSourcesByUrl, extractAnswer,             *)
(* extractSources.                                                         *)
(***************************************************************************)
KeyMarkdown == <<"m","a","r","k","d","o","w","n","_","b","l","o","c","k">>
KeyWeb      == <<"w","e","b","_","r","e","s","u","l","t","s">>
KeyAskText  == <<"a", "s", "k", "_", "t", "e", "x", "t">>
Markdown   == <<"m", "a", "r", "k", "d", "o", "w", "n">>

\* String.prototype.includes
Includes(s, sub) ==
    \E i \in 1 .. Len(s) - Len(sub) + 1 : SubSeq(s, i, i + Len(sub) - 1) = sub

UpperLetters ==
    <<"A", "B", "C", "D", "E", "F", "G", "H", "I", "J", "K", "L", "M",
      "N", "O", "P", "Q", "R", "S", "T", "U", "V", "W", "X", "Y", "Z">>

LowerLetters ==
    <<"a", "b", "c", "d", "e", "f", "g", "h", "i", "j", "k", "l", "m",
      "n", "o", "p", "q", "r", "s", "t", "u", "v", "w", "x", "y", "z">>

LowerOf(c) ==
    IF \E i \in 1 .. Len(UpperLetters) : UpperLetters[i] = c
    THEN LowerLetters[CHOOSE i \in 1 .. Len(UpperLetters) : UpperLetters[i] = c]
    ELSE c

\* String.prototype.toLowerCase
ToLowerCase(s) == [i \in 1 .. Len(s) |-> LowerOf(s[i])]

\* Mutant of normalizeUrl: the case of the URL is kept.
normalizeUrlKeepCase(url) ==
    LET trimmed == Trim(url)
    IN  IF EndsWith(trimmed, <<"/">>)
        THEN SubSeq(trimmed, 1, Len(trimmed) - 1)
        ELSE trimmed

\* url.trim().replace(/\/$/, "").toLowerCase()
normalizeUrl(url) ==
    LET trimmed  == Trim(url)
        stripped == IF EndsWith(trimmed, <<"/">>)
                    THEN SubSeq(trimmed, 1, Len(trimmed) - 1)
                    ELSE trimmed
    IN  ToLowerCase(stripped)

\* Lines 118-132: the loop of dedupeSourcesByUrl over the remaining sources.
RECURSIVE DedupeLoop(_, _, _)
DedupeLoop(sources, seen, deduped) ==
    IF sources = <<>> THEN deduped
    ELSE LET source == Head(sources)
             url    == IF Has(source, "url") THEN Trim(source.url) ELSE <<>>
         IN  IF url = <<>>
             THEN DedupeLoop(Tail(sources), seen, Append(deduped, source))
             ELSE IF normalizeUrl(url) \in seen
             THEN DedupeLoop(Tail(sources), seen, deduped)
             ELSE DedupeLoop(Tail(sources), seen \cup {normalizeUrl(url)},
                             Append(deduped, source))

dedupeSourcesByUrl(sources) == DedupeLoop(sources, {}, <<>>)

\* match(usage) for the two predicates extractAnswer passes.
UsageMatches(mode, usage) ==
    IF mode = "markdown" THEN Includes(usage, Markdown) ELSE usage = KeyAskText

\* Lines 140-163: the scan of extractTextFromBlock; <<>> stands for null (a
\* text returned is never empty).
RECURSIVE ExtractTextLoop(_, _)
ExtractTextLoop(blocks, mode) ==
    IF blocks = <<>> THEN <<>>
    ELSE LET block    == Head(blocks)
             usage    == OrElse(block, "intended_usage", <<>>)
             markdown == OrElse(block, "markdown_block", EmptyObject)
         IN  IF ~UsageMatches(mode, usage) \/ ~Has(block, "markdown_block")
             THEN ExtractTextLoop(Tail(blocks), mode)
             ELSE IF Has(markdown, "answer") /\ Len(Trim(markdown.answer)) > 0
             THEN Trim(markdown.answer)
             ELSE IF /\ Has(markdown, "chunks") /\ Len(markdown.chunks) > 0
                     /\ Len(Trim(JoinEmpty(markdown.chunks))) > 0
             THEN Trim(JoinEmpty(markdown.chunks))
             ELSE ExtractTextLoop(Tail(blocks), mode)

extractTextFromBlock(event, mode) ==
    ExtractTextLoop(OrElse(event, "blocks", <<>>), mode)

\* Mutant of extractAnswer: an ask_text block is preferred to a markdown one.
extractAnswerAskFirst(event) ==
    LET markdownAnswer == extractTextFromBlock(event, "markdown")
        askTextAnswer  == extractTextFromBlock(event, "ask_text")
    IN  IF askTextAnswer # <<>> THEN askTextAnswer
        ELSE IF markdownAnswer # <<>> THEN markdownAnswer
        ELSE IF Has(event, "text") THEN Trim(event.text)
        ELSE <<>>

extractAnswer(event) ==
    LET markdownAnswer == extractTextFromBlock(event, "markdown")
        askTextAnswer  == extractTextFromBlock(event, "ask_text")
    IN  IF markdownAnswer # <<>> THEN markdownAnswer
        ELSE IF askTextAnswer # <<>> THEN askTextAnswer
        ELSE IF Has(event, "text") THEN Trim(event.text)
        ELSE <<>>

\* StreamSource -> WebResult: title -> name, date -> timestamp.
ToWebResult(source) ==
    LET rename(k) == IF k = "name" THEN "title"
                     ELSE IF k = "timestamp" THEN "date" ELSE k
        keys == {k \in {"name", "url", "snippet", "timestamp"} : Has(source, rename(k))}
    IN  [k \in keys |-> source[rename(k)]]

\* Mutant of extractSources: the legacy sources are added to the block's.
extractSourcesMixed(event) ==
    LET blocks          == OrElse(event, "blocks", <<>>)
        index           == FindIndex(blocks, KeyWeb)
        webResultsBlock == IF index = 0 THEN EmptyObject ELSE blocks[index]
        blockSources    ==
            IF Has(webResultsBlock, "web_result_block")
            THEN OrElse(webResultsBlock.web_result_block, "web_results", <<>>)
            ELSE <<>>
        legacy          == OrElse(event, "sources_list", <<>>)
    IN  dedupeSourcesByUrl(blockSources
                             \o [i \in 1 .. Len(legacy) |-> ToWebResult(legacy[i])])

extractSources(event) ==
    LET blocks          == OrElse(event, "blocks", <<>>)
        index           == FindIndex(blocks, KeyWeb)
        webResultsBlock == IF index = 0 THEN EmptyObject ELSE blocks[index]
        blockSources    ==
            IF Has(webResultsBlock, "web_result_block")
            THEN OrElse(webResultsBlock.web_result_block, "web_results", <<>>)
            ELSE <<>>
        legacy          == OrElse(event, "sources_list", <<>>)
    IN  IF Len(blockSources) > 0 THEN dedupeSourcesByUrl(blockSources)
        ELSE dedupeSourcesByUrl([i \in 1 .. Len(legacy) |-> ToWebResult(legacy[i])])

(***************************************************************************)
(* client.ts: the outcomes of searchPerplexity.                            *)
(***************************************************************************)
Placeholder ==
    <<"N", "o", " ", "a", "n", "s", "w", "e", "r", " ", "t", "e", "x",
      "t", " ", "r", "e", "t", "u", "r", "n", "e", "d", " ", "b", "y",
      " ", "P", "e", "r", "p", "l", "e", "x", "i", "t", "y", ".">>

Pending == [kind |-> "pending", code |-> "", message |-> "", result |-> EmptyObject]

\* throw new SearchError(code, ...); `message` tags which throw it was.
Failed(code, message) ==
    [kind |-> "error", code |-> code, message |-> message, result |-> EmptyObject]

Returned(result) ==
    [kind |-> "result", code |-> "", message |-> "", result |-> result]

\* Mutant of mapHttpError: 403 is not an authentication failure.
mapHttpErrorOnly401(status) ==
    IF status = 401 THEN Failed("AUTH", "http")
    ELSE IF status = 429 THEN Failed("RATE_LIMIT", "http")
    ELSE Failed("NETWORK", "http")

mapHttpError(status) ==
    IF status = 401 \/ status = 403 THEN Failed("AUTH", "http")
    ELSE IF status = 429 THEN Failed("RATE_LIMIT", "http")
    ELSE Failed("NETWORK", "http")

\* A string is truthy when it is not empty.
Truthy(a, k) == Has(a, k) /\ a[k] # ""

\* Mutant of IsTerminal: only the final flag ends the loop.
IsTerminalFinalOnly(event) == Has(event, "final") /\ event.final = TRUE

\* event.final || event.status === "COMPLETED"
IsTerminal(event) ==
    \/ Has(event, "final") /\ event.final = TRUE
    \/ Has(event, "status") /\ event.status = "COMPLETED"

\* Mutant of Finish: a snapshot that gives neither answer nor sources is
\* returned as a result with an empty answer.
FinishBlank(snap) ==
    IF Truthy(snap, "error_code") \/ Truthy(snap, "error_message")
    THEN Failed("STREAM", "stream-error")
    ELSE LET answer  == extractAnswer(snap)
             sources == extractSources(snap)
         IN  IF answer = <<>> /\ Len(sources) = 0
             THEN Returned([answer |-> <<>>, sources |-> <<>>])
             ELSE Returned([answer  |-> IF answer # <<>> THEN answer ELSE Placeholder,
                            sources |-> sources])

\* Mutant of Finish: the answer is returned as extracted, without placeholder.
FinishNoPlaceholder(snap) ==
    IF Truthy(snap, "error_code") \/ Truthy(snap, "error_message")
    THEN Failed("STREAM", "stream-error")
    ELSE LET answer  == extractAnswer(snap)
             sources == extractSources(snap)
         IN  IF answer = <<>> /\ Len(sources) = 0
             THEN Failed("EMPTY", "empty")
             ELSE Returned([answer |-> answer, sources |-> sources])

\* Lines 365-389: what searchPerplexity does with the snapshot once the loop
\* over the events has ended without throwing.
Finish(snap) ==
    IF Truthy(snap, "error_code") \/ Truthy(snap, "error_message")
    THEN Failed("STREAM", "stream-error")
    ELSE LET answer  == extractAnswer(snap)
             sources == extractSources(snap)
             meta    == [k \in {j \in {"displayModel", "uuid"} :
                                   Has(snap, IF j = "uuid" THEN j ELSE "display_model")}
                           |-> snap[IF k = "uuid" THEN k ELSE "display_model"]]
         IN  IF answer = <<>> /\ Len(sources) = 0
             THEN Failed("EMPTY", "empty")
             ELSE Returned(Spread([answer  |-> IF answer # <<>> THEN answer
                                               ELSE Placeholder,
                                   sources |-> sources], meta))

(***************************************************************************)
(* Inputs of mergeMarkdownBlock.                                           *)
(***************************************************************************)
RECURSIVE SeqsUpTo(_, _)
SeqsUpTo(S, n) ==
    IF n = 0 THEN {<<>>}
    ELSE LET shorter == SeqsUpTo(S, n - 1)
         IN  shorter \cup {Append(q, x) : q \in shorter, x \in S}

\* Chunk fragments: two distinct letters and the empty string.
ChunkVals == {<<"a">>, <<"b">>, <<>>}

AnswerParts == {EmptyObject, [answer |-> <<>>], [answer |-> <<"x">>]}

ChunkParts ==
    {EmptyObject} \cup {[chunks |-> c] : c \in SeqsUpTo(ChunkVals, MaxChunkList)}

OffsetParts ==
    {EmptyObject} \cup {[chunk_starting_offset |-> n] : n \in -1 .. MaxOffset}

IncomingMarkdowns ==
    {Spread(Spread(a, c), o) : a \in AnswerParts, c \in ChunkParts, o \in OffsetParts}

ExistingMarkdowns ==
    {Spread(Spread(a, c), o) :
        a \in AnswerParts, c \in ChunkParts,
        o \in {EmptyObject, [chunk_starting_offset |-> 0]}}

(***************************************************************************)
(* Inputs of the fold with mergeEvent.                                     *)
(***************************************************************************)
SourceLists == {<<>>, <<SrcA>>, <<SrcB>>, <<SrcA, SrcA>>, <<SrcB, SrcA>>}

BlockVals ==
    { [intended_usage |-> KeyMarkdown,
       markdown_block |-> [answer |-> <<"x">>, chunks |-> <<<<"a">>, <<"b">>>>,
                           chunk_starting_offset |-> 0]],
      [intended_usage |-> KeyMarkdown,
       markdown_block |-> [chunks |-> <<<<"b">>>>, chunk_starting_offset |-> 1]],
      [intended_usage |-> KeyMarkdown],
      [intended_usage |-> KeyWeb, web_result_block |-> [web_results |-> <<SrcA>>]],
      [intended_usage |-> KeyWeb, web_result_block |-> [web_results |-> <<>>]],
      [markdown_block |-> [chunks |-> <<<<"a">>>>]],
      [intended_usage |-> <<>>, markdown_block |-> [answer |-> <<"x">>]] }

\* blocks lists of zero, one or two blocks.
BlockLists ==
    {<<>>} \cup {<<b>> : b \in BlockVals} \cup {<<b, c>> : b \in BlockVals, c \in BlockVals}

FoldEvents ==
    {EmptyObject}
      \cup {[sources_list |-> s] : s \in SourceLists}
      \cup {[blocks |-> b] : b \in BlockLists}

(***************************************************************************)
(* State machines.                                                         *)
(***************************************************************************)
MdIdle ==
    /\ mdExisting = EmptyObject
    /\ mdIncoming = EmptyObject
    /\ mdMerged = EmptyObject
    /\ mdApplied = FALSE

FoldIdle ==
    /\ snapshot = EmptyObject
    /\ prevSnapshot = EmptyObject
    /\ lastIncoming = EmptyObject
    /\ folded = 0
    /\ srcConcat = <<>>
    /\ mergedEvents = <<>>

ReaderIdle ==
    /\ bufferedText = <<>>
    /\ dataLines = <<>>
    /\ rpc = "idle"
    /\ locked = FALSE
    /\ raised = FALSE
    /\ yielded = <<>>
    /\ flushed = <<>>

StreamIdle ==
    /\ input = <<>>
    /\ body = <<>>
    /\ aborted = FALSE
    /\ ReaderIdle

SearchOff ==
    /\ spc = "off"
    /\ useBun = FALSE
    /\ requests = 0
    /\ response = EmptyObject
    /\ outcome = Pending

AuthPending == [kind |-> "pending", code |-> "", token |-> <<>>, source |-> ""]

\* The invocations of searchPerplexity that run at the same time.
Calls == {1, 2}

PairOff ==
    /\ given = [c \in Calls |-> [status |-> 0, events |-> <<>>]]
    /\ cpc = [c \in Calls |-> "off"]
    /\ pending = [c \in Calls |-> <<>>]
    /\ snapshots = [c \in Calls |-> EmptyObject]
    /\ outcomes = [c \in Calls |-> Pending]

HeapOff ==
    /\ heap = <<>>
    /\ accRef = 0
    /\ incRef = 0
    /\ prevHeap = <<>>
    /\ prevAccRef = 0
    /\ merges = 0

BodyOff ==
    /\ searchParams = EmptyObject
    /\ requestBody = EmptyObject

OtpOff ==
    /\ processEnv = EmptyObject
    /\ options = EmptyObject
    /\ emailGiven = <<>>
    /\ otpCode = <<>>
    /\ cookieJar = EmptyObject
    /\ fetches = <<>>
    /\ prompted = <<>>
    /\ loginSettled = "pending"

AuthOff ==
    /\ now = 0
    /\ store = <<>>
    /\ borrowDisabled = FALSE
    /\ apc = "off"
    /\ caller = ""
    /\ sawExpiredToken = FALSE
    /\ desktopToken = <<>>
    /\ authCalls = <<>>
    /\ authResult = AuthPending
    /\ loadedAt = 0
    /\ storeAtCall = <<>>
    /\ tpc = "off"
    /\ toolOut = "pending"
    /\ rejected = <<>>
    /\ toolAborted = FALSE
    /\ isError = FALSE
    /\ searched = <<>>
    /\ commandArgs = <<>>

ExtractIdle ==
    /\ exEvent = EmptyObject
    /\ exAnswer = <<>>
    /\ exSources = <<>>
    /\ exApplied = FALSE
    /\ ddSources = <<>>
    /\ ddDeduped = <<>>
    /\ ddApplied = FALSE

\* One call mergeMarkdownBlock(existing, incoming).
ApplyMergeMarkdown ==
    /\ ~mdApplied
    /\ mdMerged' = mergeMarkdownBlock(mdExisting, mdIncoming)
    /\ mdApplied' = TRUE
    /\ UNCHANGED <<mdExisting, mdIncoming, extractVars, pairVars, heapVars, bodyVars, otpVars, authVars, foldVars,
                   streamVars,
                   searchVars>>

InitMd ==
    /\ PairOff
    /\ AuthOff
    /\ HeapOff
    /\ BodyOff
    /\ OtpOff
    /\ mdExisting \in ExistingMarkdowns
    /\ mdIncoming \in IncomingMarkdowns
    /\ mdMerged = EmptyObject
    /\ mdApplied = FALSE
    /\ FoldIdle
    /\ StreamIdle
    /\ SearchOff
    /\ ExtractIdle

SpecMd == InitMd /\ [][ApplyMergeMarkdown]_vars

\* snapshot = mergeEvent(snapshot, event), with the history it leaves.
Fold(event) ==
    /\ snapshot' = mergeEvent(snapshot, event)
    /\ prevSnapshot' = snapshot
    /\ lastIncoming' = event
    /\ folded' = folded + 1
    /\ srcConcat' = srcConcat \o OrElse(event, "sources_list", <<>>)

\* One step of a left fold of mergeEvent from the empty snapshot.
FoldEvent ==
    /\ folded < MaxFold
    /\ \E event \in FoldEvents : Fold(event)
    /\ UNCHANGED <<mergedEvents, mdVars, extractVars, pairVars, heapVars, bodyVars, otpVars, authVars, streamVars,
                   searchVars>>

InitFold ==
    MdIdle /\ FoldIdle /\ StreamIdle /\ SearchOff /\ ExtractIdle /\ AuthOff /\ PairOff
    /\ HeapOff
    /\ BodyOff
    /\ OtpOff

SpecFold == InitFold /\ [][FoldEvent]_vars

(***************************************************************************)
(* The fold with mergeEvent over events that carry top-level scalar fields *)
(* (StreamEvent: status, final, text, display_model, uuid, error_code,     *)
(* error_message), as the loop `snapshot = mergeEvent(snapshot, event)`    *)
(* runs it.                                                                *)
(***************************************************************************)
ScalarFields ==
    {"status", "final", "text", "display_model", "uuid", "error_code", "error_message"}

\* Two values of each scalar field.
ScalarValues(field) ==
    CASE field = "status"        -> {"PENDING", "COMPLETED"}
      [] field = "final"         -> {FALSE, TRUE}
      [] field = "text"          -> {<<"a">>, <<>>}
      [] field = "display_model" -> {"m1", "m2"}
      [] field = "uuid"          -> {"u1", "u2"}
      [] field = "error_code"    -> {"E1", ""}
      [] field = "error_message" -> {"boom", ""}

\* Events of one scalar field, the empty event, and events that carry
\* several fields, blocks or sources beside a scalar.
ScalarEvents ==
    {EmptyObject}
      \cup UNION {{[k \in {f} |-> v] : v \in ScalarValues(f)} : f \in ScalarFields}
      \cup { [status |-> "COMPLETED", final |-> TRUE, text |-> <<"b">>],
             [display_model |-> "m1", uuid |-> "u1", text |-> <<"a">>],
             [text |-> <<"b">>, sources_list |-> <<SrcA>>],
             [uuid |-> "u2",
              blocks |-> <<[intended_usage |-> KeyMarkdown,
                            markdown_block |-> [answer |-> <<"x">>]]>>] }

FoldScalars ==
    /\ folded < MaxFold
    /\ \E event \in ScalarEvents :
          /\ Fold(event)
          /\ mergedEvents' = Append(mergedEvents, event)
    /\ UNCHANGED <<mdVars, extractVars, pairVars, heapVars, bodyVars, otpVars, authVars, streamVars, searchVars>>

SpecScalars == InitFold /\ [][FoldScalars]_vars

(***************************************************************************)
(* dedupeSourcesByUrl applied to a list of sources.                        *)
(***************************************************************************)
\* WebResult values: the same page under three spellings of its URL, a URL
\* with two trailing slashes, another page, no URL, a blank URL.
WebResults ==
    { [name |-> "A", url |-> <<"u", "/", "a">>],
      [name |-> "B", url |-> <<SP, "U", "/", "a", "/">>],
      [name |-> "C", url |-> <<"u", "/", "a", "/", "/">>],
      [name |-> "D", url |-> <<"u", "/", "b">>],
      [name |-> "E"],
      [name |-> "F", url |-> <<SP>>] }

InitDedupe ==
    /\ PairOff
    /\ AuthOff
    /\ HeapOff
    /\ BodyOff
    /\ OtpOff
    /\ MdIdle
    /\ FoldIdle
    /\ StreamIdle
    /\ SearchOff
    /\ exEvent = EmptyObject
    /\ exAnswer = <<>>
    /\ exSources = <<>>
    /\ exApplied = FALSE
    /\ ddSources \in SeqsUpTo(WebResults, MaxSources)
    /\ ddDeduped = <<>>
    /\ ddApplied = FALSE

\* One call dedupeSourcesByUrl(sources).
ApplyDedupe ==
    /\ ~ddApplied
    /\ ddDeduped' = dedupeSourcesByUrl(ddSources)
    /\ ddApplied' = TRUE
    /\ UNCHANGED <<mdVars, foldVars, streamVars, searchVars, authVars, pairVars, heapVars, bodyVars, otpVars,
                   exEvent, exAnswer, exSources, exApplied, ddSources>>

SpecDedupe == InitDedupe /\ [][ApplyDedupe]_vars

(***************************************************************************)
(* extractAnswer and extractSources applied to a final snapshot.           *)
(***************************************************************************)
\* A legacy source with all four fields, the page of SrcA under another
\* spelling of its URL.
SrcDated ==
    [title |-> "D", url |-> <<"U", "/", "a", "/">>, snippet |-> "s", date |-> "d1"]

ExtractBlockVals ==
    { [intended_usage |-> KeyMarkdown,
       markdown_block |-> [answer |-> <<SP, "X", SP>>]],
      [intended_usage |-> KeyMarkdown,
       markdown_block |-> [answer |-> <<SP>>, chunks |-> <<<<"a">>, <<"b", SP>>>>]],
      [intended_usage |-> KeyMarkdown,
       markdown_block |-> [answer |-> <<>>, chunks |-> <<<<SP>>>>]],
      [intended_usage |-> KeyMarkdown],
      [intended_usage |-> <<"M", "a", "r", "k", "d", "o", "w", "n">>,
       markdown_block |-> [answer |-> <<"N">>]],
      [intended_usage |-> KeyAskText,
       markdown_block |-> [answer |-> <<"Y">>]],
      [intended_usage |-> KeyAskText \o <<"2">>,
       markdown_block |-> [answer |-> <<"Q">>]],
      [markdown_block |-> [answer |-> <<"U">>]],
      [intended_usage |-> KeyWeb,
       web_result_block |-> [web_results |->
           <<[name |-> "A", url |-> <<"u", "/", "a">>],
             [name |-> "B", url |-> <<SP, "U", "/", "a", "/">>]>>]],
      [intended_usage |-> KeyWeb, web_result_block |-> [web_results |-> <<>>]],
      [intended_usage |-> KeyWeb],
      [intended_usage |-> KeyWeb \o <<"2">>,
       web_result_block |-> [web_results |-> <<[name |-> "E"]>>]] }

ExtractEvents ==
    {Spread(Spread(b, t), l) :
        b \in {EmptyObject}
                 \cup {[blocks |-> q] : q \in SeqsUpTo(ExtractBlockVals, MaxExtractBlocks)},
        t \in {EmptyObject, [text |-> <<SP>>], [text |-> <<SP, "Z", SP>>]},
        l \in {EmptyObject, [sources_list |-> <<SrcA>>],
               [sources_list |-> <<SrcA, SrcDated, SrcB>>]}}

InitExtract ==
    /\ PairOff
    /\ AuthOff
    /\ HeapOff
    /\ BodyOff
    /\ OtpOff
    /\ MdIdle
    /\ FoldIdle
    /\ StreamIdle
    /\ SearchOff
    /\ exEvent \in ExtractEvents
    /\ exAnswer = <<>>
    /\ exSources = <<>>
    /\ exApplied = FALSE
    /\ ddSources = <<>>
    /\ ddDeduped = <<>>
    /\ ddApplied = FALSE

\* extractAnswer(snapshot) and extractSources(snapshot), as searchPerplexity
\* calls them on the final snapshot.
ApplyExtract ==
    /\ ~exApplied
    /\ exAnswer' = extractAnswer(exEvent)
    /\ exSources' = extractSources(exEvent)
    /\ exApplied' = TRUE
    /\ UNCHANGED <<mdVars, foldVars, streamVars, searchVars, authVars, pairVars, heapVars, bodyVars, otpVars,
                   exEvent, ddSources, ddDeduped, ddApplied>>

SpecExtract == InitExtract /\ [][ApplyExtract]_vars

(***************************************************************************)
(* readSseEvents as a state machine.  A step runs the generator from one   *)
(* suspension (the pending reader.read(), a yield) to the next.            *)
(***************************************************************************)
\* The generator's variables after a run that stopped as `r` tells.
GenAfter(r) ==
    /\ bufferedText' = r.buf
    /\ dataLines' = r.dl
    /\ flushed' = r.fl
    /\ rpc' = IF r.stop \in {"read", "yield", "tailYield"} THEN r.stop ELSE "end"
    /\ locked' = (r.stop \in {"read", "yield", "tailYield"})
    /\ yielded' = IF r.stop \in {"yield", "tailYield"}
                  THEN Append(yielded, r.event) ELSE yielded
    /\ raised' = raised

\* The first next(): body.getReader(), then the top of the read loop.
GenStart == GenAfter(AtLoopTop(<<>>, <<>>, <<>>, aborted))

\* Mutant of GenRead: the text held from the earlier chunks is dropped.
GenReadForgets(n) ==
    /\ body' = SubSeq(body, n + 1, Len(body))
    /\ GenAfter(RunLines(SubSeq(body, 1, n), dataLines, flushed, aborted))

\* reader.read() resolves with the next n characters of the stream.
GenRead(n) ==
    /\ body' = SubSeq(body, n + 1, Len(body))
    /\ GenAfter(RunLines(bufferedText \o SubSeq(body, 1, n), dataLines, flushed, aborted))

\* reader.read() resolves with done: true.
GenReadDone ==
    /\ body' = body
    /\ GenAfter(RunTail(bufferedText, dataLines, flushed))

\* reader.read() rejects: the error leaves the generator through `finally`.
GenReadFail ==
    /\ rpc' = "end"
    /\ locked' = FALSE
    /\ raised' = TRUE
    /\ UNCHANGED <<body, bufferedText, dataLines, yielded, flushed>>

\* next() after a yield: the line loop goes on (or, after the final yield,
\* the generator ends).
GenResume ==
    /\ body' = body
    /\ IF rpc = "yield"
       THEN GenAfter(RunLines(bufferedText, dataLines, flushed, aborted))
       ELSE GenAfter([stop |-> "end", buf |-> bufferedText, dl |-> dataLines,
                      fl |-> flushed, event |-> EmptyObject])

\* Mutant of GenReturn: the generator is dropped without its `finally`.
GenReturnKeepsLock ==
    /\ rpc' = "end"
    /\ locked' = locked
    /\ UNCHANGED <<body, bufferedText, dataLines, yielded, flushed, raised>>

\* return() after a yield (the consumer left its loop): `finally` runs.
GenReturn ==
    /\ rpc' = "end"
    /\ locked' = FALSE
    /\ UNCHANGED <<body, bufferedText, dataLines, yielded, flushed, raised>>

\* The search, or the iteration of the decoder, is over.
Finished == spc = "done" \/ (spc = "off" /\ rpc = "end")

\* The caller raises the cancellation signal.
Abort ==
    /\ ~aborted
    /\ ~Finished
    /\ aborted' = TRUE
    /\ UNCHANGED <<mdVars, extractVars, pairVars, heapVars, bodyVars, otpVars, authVars, foldVars, input, body,
                   readerVars,
                   searchVars>>

(***************************************************************************)
(* The decoder alone, iterated by a consumer that takes every event        *)
(* (for await ... of readSseEvents(stream, signal)).                       *)
(***************************************************************************)
Frame(payload) == DataPrefix \o <<SP>> \o payload \o <<NL, NL>>

StreamItems ==
    { Frame(<<"{", "a", "}">>),                                \* an event
      DataPrefix \o <<"{", "b", "}", CR, NL, CR, NL>>,         \* an event, CRLF
      Frame(DoneMarker),                                       \* the sentinel
      DataPrefix \o <<SP, "{", "a", NL>>,                      \* a data line
      Frame(<<"}">>),                                          \* a data line, flushed
      <<":", NL>>,                                             \* another line
      DataPrefix \o <<SP, "{", "b", "}">>,                     \* no line end
      Frame(<<"[", "]">>),                                     \* JSON, an array
      Frame(<<"1">>),                                          \* JSON, a number
      Frame(<<"n", "u", "l", "l">>) }                          \* JSON, null

StreamTexts == {JoinEmpty(q) : q \in SeqsUpTo(StreamItems, MaxItems)}

\* The sizes of the chunk a read may deliver: up to MaxChunk characters, or
\* all that is left of the stream.
ReadSizes(rest) == {n \in 1 .. Len(rest) : n <= MaxChunk \/ n = Len(rest)}

InitStream ==
    /\ PairOff
    /\ AuthOff
    /\ HeapOff
    /\ BodyOff
    /\ OtpOff
    /\ MdIdle
    /\ ExtractIdle
    /\ FoldIdle
    /\ SearchOff
    /\ input \in StreamTexts
    /\ body = input
    /\ aborted = FALSE
    /\ ReaderIdle

StreamStart ==
    /\ spc = "off"
    /\ rpc = "idle"
    /\ GenStart
    /\ UNCHANGED <<mdVars, extractVars, pairVars, heapVars, bodyVars, otpVars, authVars, foldVars, input, body,
                   aborted,
                   searchVars>>

StreamRead ==
    /\ spc = "off"
    /\ rpc = "read"
    /\ body # <<>>
    /\ \E n \in ReadSizes(body) : GenRead(n)
    /\ UNCHANGED <<mdVars, extractVars, pairVars, heapVars, bodyVars, otpVars, authVars, foldVars, input, aborted,
                   searchVars>>

StreamReadDone ==
    /\ spc = "off"
    /\ rpc = "read"
    /\ body = <<>>
    /\ GenReadDone
    /\ UNCHANGED <<mdVars, extractVars, pairVars, heapVars, bodyVars, otpVars, authVars, foldVars, input, aborted,
                   searchVars>>

StreamReadFail ==
    /\ spc = "off"
    /\ rpc = "read"
    /\ GenReadFail
    /\ UNCHANGED <<mdVars, extractVars, pairVars, heapVars, bodyVars, otpVars, authVars, foldVars, input, aborted,
                   searchVars>>

Collect ==
    /\ spc = "off"
    /\ rpc \in {"yield", "tailYield"}
    /\ GenResume
    /\ UNCHANGED <<mdVars, extractVars, pairVars, heapVars, bodyVars, otpVars, authVars, foldVars, input, aborted,
                   searchVars>>

NextStream ==
    \/ StreamStart
    \/ StreamRead
    \/ StreamReadDone
    \/ StreamReadFail
    \/ Collect
    \/ Abort

SpecStream == InitStream /\ [][NextStream]_vars

\* The decoder alone on the texts of up to MaxPieces pieces, each read with
\* every size of chunk (the comparison with the text read as one chunk is
\* made in every state).
ChunkTexts == {JoinEmpty(q) : q \in SeqsUpTo(StreamItems, MaxPieces)}

InitChunks ==
    /\ PairOff
    /\ AuthOff
    /\ HeapOff
    /\ BodyOff
    /\ OtpOff
    /\ MdIdle
    /\ ExtractIdle
    /\ FoldIdle
    /\ SearchOff
    /\ input \in ChunkTexts
    /\ body = input
    /\ aborted = FALSE
    /\ ReaderIdle

SpecChunks == InitChunks /\ [][NextStream]_vars

(***************************************************************************)
(* The decoder on streams that end inside a payload.                       *)
(***************************************************************************)
MaxTailItems == 3   \* number of pieces a text ending inside a payload is made of

TailItems ==
    { Frame(<<"{", "a", "}">>),                       \* an event, flushed
      DataPrefix \o <<SP, "{", "a", NL>>,             \* a data line
      Frame(<<"}">>),                                 \* a data line, flushed
      DataPrefix \o <<SP, "}">>,                      \* a data line, no line end
      DataPrefix \o <<SP, "{", "b", "}">>,            \* an event, no line end
      <<SP>> \o DataPrefix \o <<SP, "{", "b", "}">>,  \* the same after a space
      DataPrefix \o <<SP>> \o DoneMarker,             \* the sentinel, no line end
      <<NL>> }                                        \* a blank line

TailTexts == {JoinEmpty(q) : q \in SeqsUpTo(TailItems, MaxTailItems)}

InitTail ==
    /\ PairOff
    /\ AuthOff
    /\ HeapOff
    /\ BodyOff
    /\ OtpOff
    /\ MdIdle
    /\ ExtractIdle
    /\ FoldIdle
    /\ SearchOff
    /\ input \in TailTexts
    /\ body = input
    /\ aborted = FALSE
    /\ ReaderIdle

SpecTail == InitTail /\ [][NextStream]_vars

(***************************************************************************)
(* searchPerplexity: one request, then the loop over readSseEvents with    *)
(* mergeEvent, then extraction.                                            *)
(***************************************************************************)
SearchFrames ==
    { Frame(<<"{", "T", "}">>),          \* text, not terminal
      Frame(<<"{", "T", "F", "}">>),     \* text, final: true
      Frame(<<"{", "C", "}">>),          \* status: "COMPLETED"
      Frame(<<"{", "E", "}">>),          \* error_code: "E1"
      Frame(<<"{", "e", "}">>),          \* error_code: ""
      Frame(<<"{", "S", "}">>),          \* sources_list
      Frame(DoneMarker) }                \* the sentinel

SearchTexts == {JoinEmpty(q) : q \in SeqsUpTo(SearchFrames, MaxFrames)}

\* The status of the response: 0 is what the Bun subprocess reports when its
\* own fetch threw.
HttpStatuses == {0, 200, 204, 401, 403, 429, 500}

\* Response.ok
IsOk(status) == status >= 200 /\ status <= 299

\* The chunks a read of the response body may deliver: streamFromText
\* enqueues the whole text as one chunk; the network delivers any number of
\* whole lines.
SearchReadSizes(rest) ==
    {n \in 1 .. Len(rest) : n = Len(rest) \/ (~useBun /\ rest[n] = NL)}

InitSearch ==
    /\ PairOff
    /\ AuthOff
    /\ HeapOff
    /\ BodyOff
    /\ OtpOff
    /\ MdIdle
    /\ ExtractIdle
    /\ FoldIdle
    /\ input \in SearchTexts
    /\ body = input
    /\ aborted = FALSE
    /\ ReaderIdle
    /\ spc = "idle"
    /\ useBun \in BOOLEAN
    /\ requests = 0
    /\ response = EmptyObject
    /\ outcome = Pending

\* searchPerplexity is called: the request is built and sent.
SearchStart ==
    /\ spc = "idle"
    /\ spc' = "fetch"
    /\ requests' = requests + 1
    /\ UNCHANGED <<mdVars, extractVars, pairVars, heapVars, bodyVars, otpVars, authVars, foldVars, streamVars, useBun,
                   response, outcome>>

\* The search ends: it returns or throws `result`.
Ends(result) ==
    /\ spc' = "done"
    /\ outcome' = result

\* Mutant of FetchThrows: a request that threw is sent again.
FetchThrowsRetry ==
    /\ spc = "fetch"
    /\ spc' = "idle"
    /\ UNCHANGED <<mdVars, extractVars, pairVars, heapVars, bodyVars, otpVars, authVars, foldVars, streamVars, useBun,
                   response, requests,
                   outcome>>

\* fetch (or the Bun subprocess) throws: lines 289-298 and 319-328.
FetchThrows ==
    /\ spc = "fetch"
    /\ Ends(Failed("NETWORK", IF aborted THEN "cancelled" ELSE "connect"))
    /\ UNCHANGED <<mdVars, extractVars, pairVars, heapVars, bodyVars, otpVars, authVars, foldVars, streamVars, useBun,
                   response, requests>>

\* Lines 299-307 and 330-336: the response is refused before any event is
\* read.  NoError when the stream is to be read.
NoError == Failed("", "")

Refusal(status, hasBody) ==
    IF useBun
    THEN IF status = 0 THEN Failed("NETWORK", "subprocess")
         ELSE IF status # 200 THEN mapHttpError(status)
         ELSE IF input = <<>> THEN Failed("STREAM", "empty-body")
         ELSE NoError
    ELSE IF ~IsOk(status) THEN mapHttpError(status)
         ELSE IF ~hasBody THEN Failed("STREAM", "empty-body")
         ELSE NoError

\* The response arrives and is refused.
FetchRefused ==
    /\ spc = "fetch"
    /\ \E status \in HttpStatuses, hasBody \in BOOLEAN :
          /\ useBun \/ status # 0
          /\ Refusal(status, hasBody) # NoError
          /\ response' = [status |-> status, hasBody |-> hasBody]
          /\ Ends(Refusal(status, hasBody))
    /\ UNCHANGED <<mdVars, extractVars, pairVars, heapVars, bodyVars, otpVars, authVars, foldVars, streamVars,
                   useBun, requests>>

\* Mutant of AfterGen: a stream that ended before a terminal event is a
\* failure.
AfterGenNeedsTerminal(snap) ==
    IF rpc' = "end"
    THEN Ends(IF rpc \in {"yield", "tailYield"} /\ IsTerminal(yielded[Len(yielded)])
              THEN Finish(snap)
              ELSE Failed("STREAM", "no-terminal"))
    ELSE /\ spc' = "stream"
         /\ outcome' = outcome

\* Mutant of AfterGen: the end of the generator is not noticed and the loop
\* keeps waiting.
AfterGenKeepsWaiting(snap) ==
    /\ spc' = "stream"
    /\ outcome' = outcome

\* What the loop over the events does once the generator has run: it goes on
\* waiting (a read is pending, or an event was yielded), or it has ended and
\* the snapshot `snap` is finished.
AfterGen(snap) ==
    IF rpc' = "end"
    THEN Ends(Finish(snap))
    ELSE /\ spc' = "stream"
         /\ outcome' = outcome

\* The response is accepted: the loop over readSseEvents starts.
FetchAccepted ==
    /\ spc = "fetch"
    /\ \E status \in HttpStatuses, hasBody \in BOOLEAN :
          /\ useBun \/ status # 0
          /\ Refusal(status, hasBody) = NoError
          /\ response' = [status |-> status, hasBody |-> hasBody]
    /\ GenStart
    /\ AfterGen(snapshot)
    /\ UNCHANGED <<mdVars, extractVars, pairVars, heapVars, bodyVars, otpVars, authVars, foldVars, input, body,
                   aborted,
                   useBun, requests>>

\* A read of the response body resolves with a chunk.
SearchRead ==
    /\ spc = "stream"
    /\ rpc = "read"
    /\ body # <<>>
    /\ \E n \in SearchReadSizes(body) : GenRead(n)
    /\ AfterGen(snapshot)
    /\ UNCHANGED <<mdVars, extractVars, pairVars, heapVars, bodyVars, otpVars, authVars, foldVars, input, aborted,
                   useBun,
                   response, requests>>

\* A read of the response body resolves with done.
SearchReadDone ==
    /\ spc = "stream"
    /\ rpc = "read"
    /\ body = <<>>
    /\ GenReadDone
    /\ AfterGen(snapshot)
    /\ UNCHANGED <<mdVars, extractVars, pairVars, heapVars, bodyVars, otpVars, authVars, foldVars, input, aborted,
                   useBun,
                   response, requests>>

\* A read of the response body rejects (never for a stream made from text):
\* lines 350-363.
SearchReadFail ==
    /\ spc = "stream"
    /\ rpc = "read"
    /\ ~useBun
    /\ GenReadFail
    /\ Ends(IF aborted THEN Failed("NETWORK", "cancelled") ELSE Failed("STREAM", "parse"))
    /\ UNCHANGED <<mdVars, extractVars, pairVars, heapVars, bodyVars, otpVars, authVars, foldVars, input, aborted,
                   useBun,
                   response, requests>>

\* Lines 345-348: the body of the loop for the event just yielded, then the
\* break or the next iteration.
SearchConsume ==
    /\ spc = "stream"
    /\ rpc \in {"yield", "tailYield"}
    /\ LET event == yielded[Len(yielded)]
       IN  /\ Fold(event)
           /\ IF IsTerminal(event) THEN GenReturn ELSE GenResume
    /\ AfterGen(snapshot')
    /\ UNCHANGED <<mergedEvents, mdVars, extractVars, pairVars, heapVars, bodyVars, otpVars, authVars, input,
                   aborted, useBun,
                   response, requests>>

Next ==
    \/ SearchStart
    \/ FetchThrows
    \/ FetchRefused
    \/ FetchAccepted
    \/ SearchRead
    \/ SearchReadDone
    \/ SearchReadFail
    \/ SearchConsume
    \/ Abort

Spec == InitSearch /\ [][Next]_vars

\* What tells where the search stands: its position, the position of the
\* generator, the part of the stream not yet read, the number of events
\* merged.
progress == <<spc, rpc, body, folded>>

\* Something of the search is pending: the call, the fetch, a read, or the
\* generator suspended at a yield (the guards of the actions of Next other
\* than Abort).
Awaiting ==
    \/ spc \in {"idle", "fetch"}
    \/ spc = "stream" /\ rpc \in {"read", "yield", "tailYield"}

\* The search itself takes a step: the pending fetch settles, the pending
\* read settles, or the generator is resumed.  Each moves the search on;
\* the caller raising the signal does not.
Resumes ==
    /\ Awaiting
    /\ \E p \in {"fetch", "stream", "done"},
          r \in {"idle", "read", "yield", "tailYield", "end"},
          k \in 0 .. Len(body), f \in {folded, folded + 1} :
          /\ spc' = p
          /\ rpc' = r
          /\ body' = SubSeq(body, k + 1, Len(body))
          /\ folded' = f
          /\ <<p, r, k, f>> # <<spc, rpc, 0, folded>>

\* The search with its scheduling: a search that is not over is resumed in
\* the end (the stream is finite: a read of it resolves with a chunk,
\* resolves with done, or rejects).
SpecLive == InitSearch /\ [][Next]_vars /\ WF_progress(Resumes)

(***************************************************************************)
(* Authentication, the token store and the perplexity_search tool.         *)
(* Instants and durations are counted in units of five minutes.            *)
(***************************************************************************)
FIVE_MINUTES_MS == 1
ONE_HOUR_MS == 12

\* A token string: `jwt` tells whether its payload decodes to a finite
\* numeric exp claim, `exp` is that claim, `issuer` tells the tokens apart.
JwtToken(issuer, exp) == [issuer |-> issuer, jwt |-> TRUE, exp |-> exp]
OpaqueToken(issuer) == [issuer |-> issuer, jwt |-> FALSE, exp |-> 0]

\* What extractFromDesktopApp resolves to: null, or the app's token.
DesktopResults ==
    {<<>>, <<OpaqueToken("desktop")>>, <<JwtToken("desktop", 3)>>}

\* How loginWithEmailOtp settles: a token, an AuthError (no OTP was given)
\* or another Error (a request of the flow failed).
OtpOutcomes ==
    {[kind |-> "token", token |-> <<OpaqueToken("otp")>>],
     [kind |-> "token", token |-> <<JwtToken("otp", 4)>>],
     [kind |-> "AuthError", token |-> <<>>],
     [kind |-> "Error", token |-> <<>>]}

\* exp * 1000 - 5 min, or now + 1 h when the token does not decode.
decodeJwtExpiry(token) ==
    IF token.jwt THEN token.exp - FIVE_MINUTES_MS ELSE now + ONE_HOUR_MS

isJwtExpired(token, bufferMs) == decodeJwtExpiry(token) <= now + bufferMs

\* The token store: the file holds one StoredToken or does not exist.
loadToken == store
saveToken(token) == <<token>>
clearToken == <<>>

AuthReturned(token, source) ==
    [kind |-> "token", code |-> "", token |-> <<token>>, source |-> source]

AuthError(code) == [kind |-> "error", code |-> code, token |-> <<>>, source |-> ""]

\* Mutant of CachedUsable: a cached token is never used.
CachedUsableNever(cached) == FALSE

\* Lines 337-343: the cached token is returned as it is.
CachedUsable(cached) ==
    \/ Has(cached, "expires") /\ cached.expires > now
    \/ ~isJwtExpired(cached.access, 0)

\* Mutant of BorrowSkipped: the desktop app is read whatever the environment.
BorrowSkippedNever == FALSE

\* Lines 349-351.
BorrowSkipped == borrowDisabled

\* authenticate(options) is called by `who`.
StartAuthenticate(who) ==
    /\ apc' = "load"
    /\ caller' = who
    /\ sawExpiredToken' = FALSE
    /\ desktopToken' = <<>>
    /\ authCalls' = <<>>
    /\ authResult' = AuthPending
    /\ storeAtCall' = store'

\* Lines 333-347: the cached token is loaded, and returned or cleared.
LoadCached ==
    /\ apc = "load"
    /\ loadedAt' = now
    /\ LET cached == loadToken
       IN  IF cached # <<>> /\ CachedUsable(cached[1])
           THEN /\ authResult' = AuthReturned(cached[1].access, "cache")
                /\ apc' = "returned"
                /\ authCalls' = Append(authCalls, "loadToken")
                /\ UNCHANGED <<store, sawExpiredToken>>
           ELSE /\ sawExpiredToken' = (cached # <<>>)
                /\ store' = IF cached # <<>> THEN clearToken ELSE store
                /\ authCalls' = authCalls \o (IF cached # <<>>
                                              THEN <<"loadToken", "clearToken">>
                                              ELSE <<"loadToken">>)
                /\ apc' = "borrow"
                /\ UNCHANGED authResult
    /\ UNCHANGED <<mdVars, foldVars, streamVars, searchVars, extractVars, pairVars, heapVars, bodyVars, otpVars, now,
                   borrowDisabled,
                   caller, desktopToken, storeAtCall, toolVars>>

\* Lines 349-377: the desktop app's token is borrowed, unless disabled.
BorrowDesktop ==
    /\ apc = "borrow"
    /\ IF BorrowSkipped
       THEN /\ apc' = "email"
            /\ UNCHANGED <<store, sawExpiredToken, desktopToken, authCalls, authResult>>
       ELSE \E got \in DesktopResults :
              /\ desktopToken' = got
              /\ IF got # <<>> /\ decodeJwtExpiry(got[1]) > now
                 THEN /\ store' = saveToken([type |-> "oauth", access |-> got[1],
                                             expires |-> decodeJwtExpiry(got[1])])
                      /\ authCalls' = authCalls \o <<"extractFromDesktopApp", "saveToken">>
                      /\ authResult' = AuthReturned(got[1], "desktop")
                      /\ apc' = "returned"
                      /\ UNCHANGED sawExpiredToken
                 ELSE /\ sawExpiredToken' = (sawExpiredToken \/ got # <<>>)
                      /\ authCalls' = Append(authCalls, "extractFromDesktopApp")
                      /\ apc' = "email"
                      /\ UNCHANGED <<store, authResult>>
    /\ UNCHANGED <<mdVars, foldVars, streamVars, searchVars, extractVars, pairVars, heapVars, bodyVars, otpVars, now,
                   borrowDisabled,
                   caller, loadedAt, storeAtCall, toolVars>>

Throws(code) ==
    /\ authResult' = AuthError(code)
    /\ apc' = "threw"

\* Mutant of OtpStored: the email is not stored with the token.
OtpStoredNoEmail(otpToken, email) ==
    [type |-> "oauth", access |-> otpToken, expires |-> decodeJwtExpiry(otpToken)]

\* Lines 420-425: the StoredToken of a token from the OTP login.
OtpStored(otpToken, email) ==
    [type |-> "oauth", access |-> otpToken, expires |-> decodeJwtExpiry(otpToken),
     email |-> email]

\* Lines 379-427: the email is asked for and the OTP login is run.
OtpLogin ==
    /\ apc = "email"
    /\ \E email \in {<<>>, <<"user@example.com">>}, login \in OtpOutcomes :
          IF email = <<>>
          THEN /\ Throws(IF sawExpiredToken THEN "EXPIRED" ELSE "NO_TOKEN")
               /\ UNCHANGED <<store, authCalls>>
          ELSE IF login.kind # "token"
          THEN /\ Throws(IF login.kind = "AuthError" THEN "NO_TOKEN"
                         ELSE "EXTRACTION_FAILED")
               /\ authCalls' = Append(authCalls, "loginWithEmailOtp")
               /\ UNCHANGED store
          ELSE IF decodeJwtExpiry(login.token[1]) <= now
          THEN /\ Throws("EXPIRED")
               /\ authCalls' = Append(authCalls, "loginWithEmailOtp")
               /\ UNCHANGED store
          ELSE /\ store' = saveToken(OtpStored(login.token[1], email[1]))
               /\ authCalls' = authCalls \o <<"loginWithEmailOtp", "saveToken">>
               /\ authResult' = AuthReturned(login.token[1], "otp")
               /\ apc' = "returned"
    /\ UNCHANGED <<mdVars, foldVars, streamVars, searchVars, extractVars, pairVars, heapVars, bodyVars, otpVars, now,
                   borrowDisabled,
                   caller, sawExpiredToken, desktopToken, loadedAt, storeAtCall, toolVars>>

\* execute of perplexity_search is called: lines 35-59.
ToolExecute ==
    /\ tpc \in {"idle", "done"}
    /\ apc = "idle"
    /\ tpc' = "auth"
    /\ toolOut' = "pending"
    /\ isError' = FALSE
    /\ searched' = <<>>
    /\ toolAborted' = FALSE
    /\ outcome' = Pending
    /\ UNCHANGED <<store, rejected, commandArgs>>
    /\ StartAuthenticate("tool")
    /\ UNCHANGED <<mdVars, foldVars, streamVars, spc, useBun, requests, response, extractVars,
                   pairVars, heapVars, bodyVars, otpVars,
                   now, borrowDisabled, loadedAt>>

\* The host raises the signal of the execution under way.
ToolAbort ==
    /\ tpc \in {"auth", "search"}
    /\ ~toolAborted
    /\ toolAborted' = TRUE
    /\ UNCHANGED <<mdVars, foldVars, streamVars, searchVars, extractVars, pairVars, heapVars, bodyVars, otpVars,
                   now, store, borrowDisabled, authLocals, tpc, toolOut, rejected, isError,
                   searched, commandArgs>>

\* Mutant of SignalAborted: the signal is not looked at.
SignalAbortedIgnored == FALSE

\* Line 61: signal?.aborted after authenticate has returned.
SignalAborted == toolAborted

\* Lines 59-76 and 99-104: authenticate has settled; with a token and the
\* signal not raised, searchPerplexity is called with it.
ToolAfterAuth ==
    /\ tpc = "auth"
    /\ caller = "tool"
    /\ apc \in {"returned", "threw"}
    /\ apc' = "idle"
    /\ rejected' = <<>>
    /\ IF apc = "threw"
       THEN /\ toolOut' = "Authentication failed"
            /\ isError' = TRUE
            /\ tpc' = "done"
            /\ UNCHANGED searched
       ELSE IF SignalAborted
       THEN /\ toolOut' = "cancelled"
            /\ tpc' = "done"
            /\ UNCHANGED <<isError, searched>>
       ELSE /\ toolOut' = toolOut
            /\ tpc' = "search"
            /\ searched' = Append(searched, authResult.token[1])
            /\ UNCHANGED isError
    /\ UNCHANGED <<toolAborted, commandArgs>>
    /\ UNCHANGED <<mdVars, foldVars, streamVars, searchVars, extractVars, pairVars, heapVars, bodyVars, otpVars,
                   now, store,
                   borrowDisabled, caller, sawExpiredToken, desktopToken, authCalls,
                   authResult, loadedAt, storeAtCall>>

\* An exception that is neither an AuthError nor a SearchError.
OtherException ==
    [kind |-> "exception", code |-> "", message |-> "TypeError", result |-> EmptyObject]

\* What searchPerplexity(searchParams, jwt, signal) and the formatting of its
\* result return or throw.
SearchOutcomes ==
    {Returned([answer |-> <<"o", "k">>, sources |-> <<>>]),
     Failed("EMPTY", "empty"), Failed("STREAM", "stream-error"),
     Failed("NETWORK", "connect"), OtherException}
        \cup {mapHttpError(status) : status \in HttpStatuses \ {0, 200, 204}}

\* Mutant of CatchSearchError: a search refused with AUTH clears the token.
CatchSearchErrorClears(error) ==
    /\ toolOut' = IF error.code = "AUTH" THEN "re-authenticate" ELSE "search failed"
    /\ store' = IF error.code = "AUTH" THEN clearToken ELSE store

\* Lines 106-126: the catch of execute, given a SearchError.
CatchSearchError(error) ==
    /\ toolOut' = IF error.code = "AUTH" THEN "re-authenticate" ELSE "search failed"
    /\ store' = store

\* Lines 76-95 and 96-136: the search settles and its outcome is rendered.
ToolSearch ==
    /\ tpc = "search"
    /\ tpc' = "done"
    /\ \E o \in SearchOutcomes :
          /\ outcome' = o
          /\ IF o.kind = "result"
             THEN /\ toolOut' = "formatted"
                  /\ store' = store
             ELSE IF o.kind = "error"
             THEN CatchSearchError(o)
             ELSE /\ toolOut' = "search failed"
                  /\ store' = store
          /\ isError' = (o.kind # "result")
          /\ rejected' = IF o.kind = "error" /\ o.code = "AUTH" THEN store ELSE <<>>
    /\ UNCHANGED <<mdVars, foldVars, streamVars, spc, useBun, requests, response, extractVars,
                   pairVars, heapVars, bodyVars, otpVars,
                   now, borrowDisabled, authLocals, toolAborted, searched, commandArgs>>

\* /perplexity-login [--force]: the token is cleared on --force, then
\* authenticate is called.
LoginCommand ==
    /\ tpc \in {"idle", "done"}
    /\ apc = "idle"
    /\ \E forceRefresh \in BOOLEAN :
          store' = IF forceRefresh THEN clearToken ELSE store
    /\ StartAuthenticate("command")
    /\ rejected' = <<>>
    /\ UNCHANGED <<mdVars, foldVars, streamVars, searchVars, extractVars, pairVars, heapVars, bodyVars, otpVars, now,
                   borrowDisabled,
                   loadedAt, tpc, toolOut, toolAborted, isError, searched, commandArgs>>

\* The command notifies the user of what authenticate did.
CommandAfterAuth ==
    /\ caller = "command"
    /\ apc \in {"returned", "threw"}
    /\ apc' = "idle"
    /\ UNCHANGED <<mdVars, foldVars, streamVars, searchVars, extractVars, pairVars, heapVars, bodyVars, otpVars,
                   now, store,
                   borrowDisabled, caller, sawExpiredToken, desktopToken, authCalls,
                   authResult, loadedAt, storeAtCall, toolVars>>

\* Time passes.
Tick ==
    /\ apc # "off"
    /\ \E d \in {FIVE_MINUTES_MS, ONE_HOUR_MS} :
          /\ now + d <= MaxNow
          /\ now' = now + d
    /\ UNCHANGED <<mdVars, foldVars, streamVars, searchVars, extractVars, pairVars, heapVars, bodyVars, otpVars, store,
                   borrowDisabled, authLocals, toolVars>>

InitAuth ==
    /\ PairOff
    /\ HeapOff
    /\ BodyOff
    /\ OtpOff
    /\ MdIdle
    /\ FoldIdle
    /\ StreamIdle
    /\ SearchOff
    /\ ExtractIdle
    /\ now = 0
    /\ store = <<>>
    /\ borrowDisabled \in BOOLEAN
    /\ apc = "idle"
    /\ caller = ""
    /\ sawExpiredToken = FALSE
    /\ desktopToken = <<>>
    /\ authCalls = <<>>
    /\ authResult = AuthPending
    /\ loadedAt = 0
    /\ storeAtCall = <<>>
    /\ tpc = "idle"
    /\ toolOut = "pending"
    /\ rejected = <<>>
    /\ toolAborted = FALSE
    /\ isError = FALSE
    /\ searched = <<>>
    /\ commandArgs = <<>>

NextAuth ==
    \/ ToolExecute
    \/ LoadCached
    \/ BorrowDesktop
    \/ OtpLogin
    \/ ToolAfterAuth
    \/ ToolAbort
    \/ ToolSearch
    \/ LoginCommand
    \/ CommandAfterAuth
    \/ Tick

SpecAuth == InitAuth /\ [][NextAuth]_vars

(***************************************************************************)
(* The body of the search request (search/client.ts).                      *)
(***************************************************************************)
\* JavaScript values of the body: strings, true, null, undefined, arrays.
Str(text) == [type |-> "string", text |-> text]
JsTrue == [type |-> "boolean", text |-> "true"]
JsNull == [type |-> "null", text |-> ""]
JsUndefined == [type |-> "undefined", text |-> ""]
JsArray(text) == [type |-> "array", text |-> text]

Queries == {"bun release", "tla"}
Recencies == {"hour", "day", "week", "month", "year"}
Limits == {1, 50}
Uuids == {"uuid-a", "uuid-b"}

\* The SearchParams execute passes on: the query, with the recency and the
\* limit when the caller gave them.
QueryOnly == {[k \in {"query"} |-> q] : q \in Queries}
WithRecency == QueryOnly \cup {With(p, "recency", r) : p \in QueryOnly, r \in Recencies}
SearchParamsGiven == WithRecency \cup {With(p, "limit", l) : p \in WithRecency, l \in Limits}

\* params.recency, or undefined.
RecencyOf(params) == IF "recency" \in DOMAIN params THEN Str(params.recency) ELSE JsUndefined

\* a ?? b
Coalesce(a, b) == IF a.type \in {"undefined", "null"} THEN b ELSE a

\* Mutant of buildRequestBody: the recency is passed on as it is.
buildRequestBodyNoNull(params, uuid, contextUuid) ==
    [query_str |-> Str(params.query),
     params |-> [query_str |-> Str(params.query),
                 search_focus |-> Str("internet"),
                 mode |-> Str("copilot"),
                 model_preference |-> Str("pplx_pro_upgraded"),
                 sources |-> JsArray("web"),
                 attachments |-> JsArray(""),
                 frontend_uuid |-> Str(uuid),
                 frontend_context_uuid |-> Str(contextUuid),
                 version |-> Str("2.18"),
                 language |-> Str("en-US"),
                 timezone |-> Str("UTC"),
                 search_recency_filter |-> RecencyOf(params),
                 is_incognito |-> JsTrue,
                 use_schematized_api |-> JsTrue,
                 skip_search_enabled |-> JsTrue]]

\* Lines 202-226.
buildRequestBody(params, uuid, contextUuid) ==
    [query_str |-> Str(params.query),
     params |-> [query_str |-> Str(params.query),
                 search_focus |-> Str("internet"),
                 mode |-> Str("copilot"),
                 model_preference |-> Str("pplx_pro_upgraded"),
                 sources |-> JsArray("web"),
                 attachments |-> JsArray(""),
                 frontend_uuid |-> Str(uuid),
                 frontend_context_uuid |-> Str(contextUuid),
                 version |-> Str("2.18"),
                 language |-> Str("en-US"),
                 timezone |-> Str("UTC"),
                 search_recency_filter |-> Coalesce(RecencyOf(params), JsNull),
                 is_incognito |-> JsTrue,
                 use_schematized_api |-> JsTrue,
                 skip_search_enabled |-> JsTrue]]

\* JSON.stringify of an object of values: a property whose value is undefined
\* is left out.
StringifyObject(object) ==
    [k \in {j \in DOMAIN object : object[j].type # "undefined"} |-> object[k]]

\* JSON.stringify(requestBody), read back as the server reads it.
Stringify(built) ==
    [query_str |-> built.query_str, params |-> StringifyObject(built.params)]

\* Lines 269-270 and 281-286 (311-317): the body is built and sent.
BuildRequest ==
    /\ requestBody = EmptyObject
    /\ \E uuid \in Uuids, contextUuid \in Uuids :
          requestBody' = Stringify(buildRequestBody(searchParams, uuid, contextUuid))
    /\ UNCHANGED <<mdVars, foldVars, streamVars, searchVars, extractVars, authVars, pairVars,
                   heapVars, otpVars, searchParams>>

\* searchPerplexity(params, jwt, signal) is called again.
NextSearchParams ==
    /\ requestBody # EmptyObject
    /\ requestBody' = EmptyObject
    /\ searchParams' \in SearchParamsGiven
    /\ UNCHANGED <<mdVars, foldVars, streamVars, searchVars, extractVars, authVars, pairVars,
                   heapVars, otpVars>>

InitBody ==
    /\ MdIdle
    /\ FoldIdle
    /\ StreamIdle
    /\ SearchOff
    /\ ExtractIdle
    /\ AuthOff
    /\ PairOff
    /\ HeapOff
    /\ OtpOff
    /\ searchParams \in SearchParamsGiven
    /\ requestBody = EmptyObject

NextBody ==
    \/ BuildRequest
    \/ NextSearchParams

SpecBody == InitBody /\ [][NextBody]_vars

(***************************************************************************)
(* The /perplexity-login command with its arguments (commands/login.ts).   *)
(***************************************************************************)
\* Pieces `args` splits into at white space; "" stands at a leading or
\* trailing blank.
ArgPieces == {"", "--force", "--refresh", "-f", "--help", "-h", "--forced"}

CommandArgs ==
    {<<>>} \cup {<<a>> : a \in ArgPieces} \cup {<<a, b>> : a, b \in ArgPieces}

\* Mutant of parseCommandArgs: only --force asks for a fresh login.
parseCommandArgsForceOnly(pieces) ==
    LET tokens == SelectSeq(pieces, LAMBDA token : token # "")
    IN  [forceRefresh |-> \E i \in 1 .. Len(tokens) : tokens[i] = "--force",
         showHelp |-> \E i \in 1 .. Len(tokens) : tokens[i] \in {"--help", "-h"},
         unknown |-> SelectSeq(tokens,
                         LAMBDA token : token \notin {"--force", "--help", "-h"})]

\* Lines 16-41.
parseCommandArgs(pieces) ==
    LET tokens == SelectSeq(pieces, LAMBDA token : token # "")
    IN  [forceRefresh |-> \E i \in 1 .. Len(tokens) : tokens[i] \in {"--force", "--refresh", "-f"},
         showHelp |-> \E i \in 1 .. Len(tokens) : tokens[i] \in {"--help", "-h"},
         unknown |-> SelectSeq(tokens,
                         LAMBDA token :
                             token \notin {"--force", "--refresh", "-f", "--help", "-h"})]

\* Lines 50-99: the handler of /perplexity-login up to its call of
\* authenticate.
CommandHandler ==
    /\ apc = "idle"
    /\ \E args \in CommandArgs :
          /\ commandArgs' = args
          /\ IF parseCommandArgs(args).showHelp \/ parseCommandArgs(args).unknown # <<>>
             THEN UNCHANGED <<store, authLocals>>
             ELSE /\ store' = IF parseCommandArgs(args).forceRefresh THEN clearToken ELSE store
                  /\ StartAuthenticate("command")
                  /\ UNCHANGED loadedAt
    /\ UNCHANGED <<mdVars, foldVars, streamVars, searchVars, extractVars, pairVars, heapVars, bodyVars,
                   otpVars, now, borrowDisabled, tpc, toolOut, rejected, toolAborted, isError,
                   searched>>

\* The extension is loaded and no command has run; the cache is empty or holds
\* a token saved earlier.
InitCommand ==
    /\ PairOff
    /\ HeapOff
    /\ BodyOff
    /\ OtpOff
    /\ MdIdle
    /\ FoldIdle
    /\ StreamIdle
    /\ SearchOff
    /\ ExtractIdle
    /\ now = 0
    /\ store \in {<<>>, <<OtpStored(JwtToken("otp", 4), "user@example.com")>>}
    /\ borrowDisabled \in BOOLEAN
    /\ apc = "idle"
    /\ caller = ""
    /\ sawExpiredToken = FALSE
    /\ desktopToken = <<>>
    /\ authCalls = <<>>
    /\ authResult = AuthPending
    /\ loadedAt = 0
    /\ storeAtCall = <<>>
    /\ tpc = "off"
    /\ toolOut = "pending"
    /\ rejected = <<>>
    /\ toolAborted = FALSE
    /\ isError = FALSE
    /\ searched = <<>>
    /\ commandArgs = <<>>

NextCommand ==
    \/ CommandHandler
    \/ LoadCached
    \/ BorrowDesktop
    \/ OtpLogin
    \/ CommandAfterAuth

SpecCommand == InitCommand /\ [][NextCommand]_vars

(***************************************************************************)
(* The email OTP login, request by request (auth/login.ts).                *)
(***************************************************************************)
\* Values of the JSON bodies and of the cookies of the auth endpoints.  A
\* string carries the token it spells and whether it looks like a token.
NullValue == [type |-> "null", likely |-> FALSE, token |-> <<>>, entries |-> <<>>]
NumberValue == [type |-> "number", likely |-> FALSE, token |-> <<>>, entries |-> <<>>]
StringValue(token, likely) ==
    [type |-> "string", likely |-> likely, token |-> <<token>>, entries |-> <<>>]
ObjectValue(entries) ==
    [type |-> "object", likely |-> FALSE, token |-> <<>>, entries |-> entries]
Entry(key, value) == [key |-> key, value |-> value]

\* An optional string: undefined or null is <<>>, a text t is <<t>>.
normalizeInput(value) ==
    IF value = <<>> \/ Trim(value[1]) = <<>> THEN <<>> ELSE <<Trim(value[1])>>

\* Lines 44-55: a string with a "." and at least twenty characters.
isLikelyPerplexityToken(value) == value.type = "string" /\ value.likely

\* /(token|jwt|access)/i on the keys that occur in the bodies drawn.
tokenKeyPattern(key) == key \in {"token", "accessToken", "csrfToken"}

RECURSIVE ScanEntries(_, _, _)
\* The inner loop of extractTokenFromPayload (lines 184-192) over the entries
\* of one object, from entry i on: the token found, and the queue.
ScanEntries(entries, i, queue) ==
    IF i > Len(entries) THEN [found |-> <<>>, queue |-> queue]
    ELSE IF tokenKeyPattern(entries[i].key) /\ isLikelyPerplexityToken(entries[i].value)
    THEN [found |-> entries[i].value.token, queue |-> queue]
    ELSE ScanEntries(entries, i + 1,
                     IF entries[i].value.type = "object"
                     THEN Append(queue, entries[i].value) ELSE queue)

RECURSIVE ScanQueue(_)
\* The outer loop of extractTokenFromPayload (lines 165-193).
ScanQueue(queue) ==
    IF queue = <<>> THEN <<>>
    ELSE IF Head(queue).type # "object" THEN ScanQueue(Tail(queue))
    ELSE \* the entries of the object at the head of the queue
         IF ScanEntries(Head(queue).entries, 1, Tail(queue)).found # <<>>
         THEN ScanEntries(Head(queue).entries, 1, Tail(queue)).found
         ELSE ScanQueue(ScanEntries(Head(queue).entries, 1, Tail(queue)).queue)

\* Mutant of extractTokenFromPayload: the body is never searched.
extractTokenFromPayloadNever(payload) == <<>>

\* Lines 156-196: the first likely token under a token-like key, breadth first.
extractTokenFromPayload(payload) ==
    IF payload.type # "object" THEN <<>> ELSE ScanQueue(<<payload>>)

SESSION_COOKIE_NAMES ==
    <<"__Secure-next-auth.session-token", "next-auth.session-token",
      "__Secure-authjs.session-token", "authjs.session-token">>

Cookie(name, value) == [name |-> name, value |-> value]

RECURSIVE capture(_, _)
\* CookieJar.capture (lines 95-115): each Set-Cookie of the response is kept
\* under its name.
capture(jar, setCookies) ==
    IF setCookies = <<>> THEN jar
    ELSE capture(With(jar, Head(setCookies).name, Head(setCookies).value), Tail(setCookies))

\* Lines 130-154: the first session cookie of the jar that looks like a token,
\* else the first such cookie of the response.
extractTokenFromCookies(setCookies, jar) ==
    LET inJar == {i \in 1 .. Len(SESSION_COOKIE_NAMES) :
                    /\ Has(jar, SESSION_COOKIE_NAMES[i])
                    /\ isLikelyPerplexityToken(jar[SESSION_COOKIE_NAMES[i]])}
        inHeaders == {i \in 1 .. Len(setCookies) :
                        /\ \E j \in 1 .. Len(SESSION_COOKIE_NAMES) :
                              setCookies[i].name = SESSION_COOKIE_NAMES[j]
                        /\ isLikelyPerplexityToken(setCookies[i].value)}
    IN  IF inJar # {} THEN jar[SESSION_COOKIE_NAMES[First(inJar)]].token
        ELSE IF inHeaders # {} THEN setCookies[First(inHeaders)].value.token
        ELSE <<>>

\* What a fetch of the flow settles with: it rejects, or it resolves with a
\* response (ok or not, its JSON body or null, its Set-Cookie headers).
Rejects == [rejected |-> TRUE, ok |-> FALSE, payload |-> NullValue, setCookies |-> <<>>]
NotOk == [rejected |-> FALSE, ok |-> FALSE, payload |-> NullValue, setCookies |-> <<>>]
Ok(payload, setCookies) ==
    [rejected |-> FALSE, ok |-> TRUE, payload |-> payload, setCookies |-> setCookies]

CsrfString == StringValue(OpaqueToken("csrf"), FALSE)
SessionCookie == Cookie("next-auth.session-token", StringValue(JwtToken("otp", 4), TRUE))
CsrfCookie == Cookie("next-auth.csrf-token", CsrfString)

CsrfReplies ==
    {Rejects, NotOk, Ok(NullValue, <<>>),
     Ok(ObjectValue(<<Entry("csrfToken", NumberValue)>>), <<>>),
     Ok(ObjectValue(<<Entry("csrfToken", CsrfString)>>), <<>>),
     Ok(ObjectValue(<<Entry("csrfToken", CsrfString)>>), <<CsrfCookie>>)}

EmailReplies == {Rejects, NotOk, Ok(NullValue, <<>>), Ok(NullValue, <<SessionCookie>>)}

OtpReplies ==
    {Rejects, NotOk, Ok(NullValue, <<>>),
     Ok(ObjectValue(<<Entry("token", StringValue(JwtToken("otp", 4), TRUE))>>), <<>>),
     Ok(ObjectValue(<<Entry("token", StringValue(JwtToken("otp", 1), TRUE))>>), <<>>),
     Ok(ObjectValue(<<Entry("token", StringValue(OpaqueToken("otp"), TRUE))>>), <<>>),
     Ok(ObjectValue(<<Entry("token", StringValue(OpaqueToken("short"), FALSE))>>), <<>>),
     Ok(ObjectValue(<<Entry("status", StringValue(OpaqueToken("ok"), FALSE)),
                      Entry("data", ObjectValue(
                          <<Entry("accessToken", StringValue(OpaqueToken("otp"), TRUE))>>))>>),
        <<>>),
     Ok(ObjectValue(<<Entry("status", StringValue(OpaqueToken("ok"), FALSE))>>),
        <<SessionCookie>>),
     Ok(ObjectValue(<<Entry("status", StringValue(OpaqueToken("ok"), FALSE))>>), <<>>)}

SessionReplies ==
    {Rejects, NotOk, Ok(NullValue, <<>>),
     Ok(ObjectValue(<<Entry("accessToken", StringValue(JwtToken("session", 4), TRUE))>>), <<>>),
     Ok(ObjectValue(<<>>), <<SessionCookie>>)}

\* What the environment and a prompt give: nothing, a blank text, a text.
EnvEmails == {<<>>, << <<" ">> >>, << <<"e", " ">> >>}
EnvOtps == {<<>>, << <<" ">> >>, << <<" ", "1">> >>}
Prompt(has, answer) == [has |-> has, answer |-> answer]
EmailPrompts ==
    {Prompt(FALSE, <<>>), Prompt(TRUE, <<>>), Prompt(TRUE, << <<" ">> >>),
     Prompt(TRUE, << <<"p">> >>)}
OtpPrompts ==
    {Prompt(FALSE, <<>>), Prompt(TRUE, <<>>), Prompt(TRUE, << <<" ">> >>),
     Prompt(TRUE, << <<"2">> >>)}

\* normalizeInput(process.env.X) ?? normalizeInput(await prompt?.()).
FromEnvOrPrompt(fromEnv, prompt) ==
    IF normalizeInput(fromEnv) # <<>> THEN normalizeInput(fromEnv)
    ELSE IF prompt.has THEN normalizeInput(prompt.answer)
    ELSE <<>>

\* The prompt is invoked when the environment gives nothing.
Asks(fromEnv, prompt) == normalizeInput(fromEnv) = <<>> /\ prompt.has

\* What loginWithEmailOtp throws.
LoginAuthError == [kind |-> "AuthError", code |-> "NO_TOKEN"]
LoginError == [kind |-> "Error", code |-> ""]

\* Mutant of CatchLoginError: every failure of the login is wrapped.
CatchLoginErrorWrapsAll(error) == "EXTRACTION_FAILED"

\* Lines 401-410: the catch around loginWithEmailOtp.
CatchLoginError(error) ==
    IF error.kind = "AuthError" THEN error.code ELSE "EXTRACTION_FAILED"

\* loginWithEmailOtp throws, and authenticate with it.
LoginThrows(error) ==
    /\ loginSettled' = error.kind
    /\ Throws(CatchLoginError(error))
    /\ UNCHANGED <<store, authCalls>>

\* Lines 412-427: loginWithEmailOtp returned a token.
LoginReturns(token) ==
    /\ loginSettled' = "token"
    /\ IF decodeJwtExpiry(token) <= now
       THEN /\ Throws("EXPIRED")
            /\ UNCHANGED <<store, authCalls>>
       ELSE /\ store' = saveToken(OtpStored(token, emailGiven[1]))
            /\ authCalls' = Append(authCalls, "saveToken")
            /\ authResult' = AuthReturned(token, "otp")
            /\ apc' = "returned"

\* fetch(url, {method, ...}) settles with `reply`, and the jar captures the
\* cookies of the response.
Fetch(method, path, reply) ==
    /\ fetches' = Append(fetches, [method |-> method, path |-> path, reply |-> reply])
    /\ cookieJar' = IF reply.rejected THEN cookieJar
                    ELSE capture(cookieJar, reply.setCookies)

\* Lines 224-226: csrfPayload.csrfToken when it is a string.
CsrfTokenOf(payload) ==
    IF /\ payload.type = "object"
       /\ \E i \in 1 .. Len(payload.entries) :
             payload.entries[i].key = "csrfToken" /\ payload.entries[i].value.type = "string"
    THEN <<"csrfToken">> ELSE <<>>

\* Lines 379-395 of authenticate: the email, from the environment or the prompt.
AskEmail ==
    /\ apc = "email"
    /\ emailGiven' = FromEnvOrPrompt(processEnv.PI_PERPLEXITY_EMAIL, options.promptForEmail)
    /\ prompted' = IF Asks(processEnv.PI_PERPLEXITY_EMAIL, options.promptForEmail)
                   THEN Append(prompted, "promptForEmail") ELSE prompted
    /\ IF emailGiven' = <<>>
       THEN /\ Throws(IF sawExpiredToken THEN "EXPIRED" ELSE "NO_TOKEN")
            /\ UNCHANGED authCalls
       ELSE /\ apc' = "csrf"
            /\ authCalls' = Append(authCalls, "loginWithEmailOtp")
            /\ UNCHANGED authResult
    /\ UNCHANGED <<mdVars, foldVars, streamVars, searchVars, extractVars, pairVars, heapVars, bodyVars,
                   now, store, borrowDisabled, caller, sawExpiredToken, desktopToken,
                   loadedAt, storeAtCall, toolVars,
                   processEnv, options, otpCode, cookieJar, fetches, loginSettled>>

\* Lines 206-230: GET /csrf.
OtpCsrf ==
    /\ apc = "csrf"
    /\ \E reply \in CsrfReplies :
          /\ Fetch("GET", "/csrf", reply)
          /\ IF reply.rejected \/ ~reply.ok \/ CsrfTokenOf(reply.payload) = <<>>
             THEN LoginThrows(LoginError)
             ELSE /\ apc' = "signin-email"
                  /\ UNCHANGED <<store, authCalls, authResult, loginSettled>>
    /\ UNCHANGED <<mdVars, foldVars, streamVars, searchVars, extractVars, pairVars, heapVars, bodyVars,
                   now, borrowDisabled, caller, sawExpiredToken, desktopToken,
                   loadedAt, storeAtCall, toolVars,
                   processEnv, options, emailGiven, otpCode, prompted>>

\* Lines 232-243: POST /signin-email.
OtpSigninEmail ==
    /\ apc = "signin-email"
    /\ \E reply \in EmailReplies :
          /\ Fetch("POST", "/signin-email", reply)
          /\ IF reply.rejected \/ ~reply.ok
             THEN LoginThrows(LoginError)
             ELSE /\ apc' = "otp"
                  /\ UNCHANGED <<store, authCalls, authResult, loginSettled>>
    /\ UNCHANGED <<mdVars, foldVars, streamVars, searchVars, extractVars, pairVars, heapVars, bodyVars,
                   now, borrowDisabled, caller, sawExpiredToken, desktopToken,
                   loadedAt, storeAtCall, toolVars,
                   processEnv, options, emailGiven, otpCode, prompted>>

\* Lines 245-254: the OTP code, from the environment or the prompt.
OtpAskCode ==
    /\ apc = "otp"
    /\ otpCode' = FromEnvOrPrompt(processEnv.PI_PERPLEXITY_OTP, options.promptForOtp)
    /\ prompted' = IF Asks(processEnv.PI_PERPLEXITY_OTP, options.promptForOtp)
                   THEN Append(prompted, "promptForOtp") ELSE prompted
    /\ IF otpCode' = <<>>
       THEN LoginThrows(LoginAuthError)
       ELSE /\ apc' = "signin-otp"
            /\ UNCHANGED <<store, authCalls, authResult, loginSettled>>
    /\ UNCHANGED <<mdVars, foldVars, streamVars, searchVars, extractVars, pairVars, heapVars, bodyVars,
                   now, borrowDisabled, caller, sawExpiredToken, desktopToken,
                   loadedAt, storeAtCall, toolVars,
                   processEnv, options, emailGiven, cookieJar, fetches>>

\* Lines 256-278: POST /signin-otp; the token is looked for in the body, then
\* in the cookies.
OtpSigninOtp ==
    /\ apc = "signin-otp"
    /\ \E reply \in OtpReplies :
          /\ Fetch("POST", "/signin-otp", reply)
          /\ IF reply.rejected \/ ~reply.ok
             THEN LoginThrows(LoginError)
             ELSE IF extractTokenFromPayload(reply.payload) # <<>>
             THEN LoginReturns(extractTokenFromPayload(reply.payload)[1])
             ELSE IF extractTokenFromCookies(reply.setCookies, cookieJar') # <<>>
             THEN LoginReturns(extractTokenFromCookies(reply.setCookies, cookieJar')[1])
             ELSE /\ apc' = "session"
                  /\ UNCHANGED <<store, authCalls, authResult, loginSettled>>
    /\ UNCHANGED <<mdVars, foldVars, streamVars, searchVars, extractVars, pairVars, heapVars, bodyVars,
                   now, borrowDisabled, caller, sawExpiredToken, desktopToken,
                   loadedAt, storeAtCall, toolVars,
                   processEnv, options, emailGiven, otpCode, prompted>>

\* Lines 280-310: GET /session, the last place a token is looked for.
OtpSession ==
    /\ apc = "session"
    /\ \E reply \in SessionReplies :
          /\ Fetch("GET", "/session", reply)
          /\ IF reply.rejected \/ ~reply.ok
             THEN LoginThrows(LoginError)
             ELSE IF extractTokenFromPayload(reply.payload) # <<>>
             THEN LoginReturns(extractTokenFromPayload(reply.payload)[1])
             ELSE IF extractTokenFromCookies(reply.setCookies, cookieJar') # <<>>
             THEN LoginReturns(extractTokenFromCookies(reply.setCookies, cookieJar')[1])
             ELSE LoginThrows(LoginError)
    /\ UNCHANGED <<mdVars, foldVars, streamVars, searchVars, extractVars, pairVars, heapVars, bodyVars,
                   now, borrowDisabled, caller, sawExpiredToken, desktopToken,
                   loadedAt, storeAtCall, toolVars,
                   processEnv, options, emailGiven, otpCode, prompted>>

\* authenticate has found no usable token in the cache and in the desktop app
\* (which gave none, or an expired one) and turns to the email OTP login.
InitOtp ==
    /\ PairOff
    /\ HeapOff
    /\ BodyOff
    /\ MdIdle
    /\ FoldIdle
    /\ StreamIdle
    /\ SearchOff
    /\ ExtractIdle
    /\ now = 0
    /\ store = <<>>
    /\ borrowDisabled = FALSE
    /\ apc = "email"
    /\ caller = "command"
    /\ desktopToken \in {<<>>, <<JwtToken("desktop", 1)>>}
    /\ sawExpiredToken = (desktopToken # <<>>)
    /\ authCalls = <<"loadToken", "extractFromDesktopApp">>
    /\ authResult = AuthPending
    /\ loadedAt = 0
    /\ storeAtCall = <<>>
    /\ tpc = "off"
    /\ toolOut = "pending"
    /\ rejected = <<>>
    /\ toolAborted = FALSE
    /\ isError = FALSE
    /\ searched = <<>>
    /\ commandArgs = <<>>
    /\ processEnv \in [PI_PERPLEXITY_EMAIL : EnvEmails, PI_PERPLEXITY_OTP : EnvOtps]
    /\ options \in [promptForEmail : EmailPrompts, promptForOtp : OtpPrompts]
    /\ emailGiven = <<>>
    /\ otpCode = <<>>
    /\ cookieJar = EmptyObject
    /\ fetches = <<>>
    /\ prompted = <<>>
    /\ loginSettled = "pending"

NextOtp ==
    \/ AskEmail
    \/ OtpCsrf
    \/ OtpSigninEmail
    \/ OtpAskCode
    \/ OtpSigninOtp
    \/ OtpSession

SpecOtp == InitOtp /\ [][NextOtp]_vars

(***************************************************************************)
(* Two invocations of searchPerplexity that run at the same time, each on  *)
(* its own response.  A step is one await of one invocation.               *)
(***************************************************************************)
MaxPairEvents == 2   \* number of events the response of an invocation delivers

PairEvents ==
    { [text |-> <<"a">>],
      [text |-> <<"b">>, final |-> TRUE],
      [sources_list |-> <<SrcA>>],
      [error_code |-> "E1"] }

PairResponses ==
    [status : {200, 429}, events : SeqsUpTo(PairEvents, MaxPairEvents)]

\* Mutant of SnapshotOf: the invocations keep one snapshot between them.
SnapshotShared(c) == snapshots[1]

\* let snapshot: StreamEvent = {} -- a local of the invocation.
SnapshotOf(c) == snapshots[c]

\* The invocation ends: it returns or throws `result`.
CallEnds(c, result) ==
    /\ cpc' = [cpc EXCEPT ![c] = "done"]
    /\ outcomes' = [outcomes EXCEPT ![c] = result]

\* The response of invocation c arrives: it is refused, or its stream is
\* about to be read into a fresh snapshot.
CallFetch(c) ==
    /\ cpc[c] = "idle"
    /\ IF given[c].status # 200
       THEN /\ CallEnds(c, mapHttpError(given[c].status))
            /\ UNCHANGED snapshots
       ELSE /\ cpc' = [cpc EXCEPT ![c] = "stream"]
            /\ snapshots' = [snapshots EXCEPT ![c] = EmptyObject]
            /\ UNCHANGED outcomes
    /\ UNCHANGED <<mdVars, foldVars, streamVars, searchVars, extractVars, authVars, heapVars, bodyVars, otpVars, given,
                   pending>>

\* One turn of the loop of invocation c: its decoder yields the next event,
\* which is merged into the snapshot; a terminal event ends the loop.
CallConsume(c) ==
    /\ cpc[c] = "stream"
    /\ pending[c] # <<>>
    /\ LET event == Head(pending[c])
       IN  /\ snapshots' = [snapshots EXCEPT ![c] = mergeEvent(SnapshotOf(c), event)]
           /\ pending' = [pending EXCEPT ![c] = Tail(pending[c])]
           /\ IF IsTerminal(event)
              THEN CallEnds(c, Finish(snapshots'[c]))
              ELSE UNCHANGED <<cpc, outcomes>>
    /\ UNCHANGED <<mdVars, foldVars, streamVars, searchVars, extractVars, authVars, heapVars, bodyVars, otpVars,
                   given>>

\* The decoder of invocation c ended: the loop is left.
CallFinish(c) ==
    /\ cpc[c] = "stream"
    /\ pending[c] = <<>>
    /\ CallEnds(c, Finish(SnapshotOf(c)))
    /\ UNCHANGED <<mdVars, foldVars, streamVars, searchVars, extractVars, authVars, heapVars, bodyVars, otpVars, given,
                   pending, snapshots>>

InitPair ==
    /\ MdIdle
    /\ FoldIdle
    /\ StreamIdle
    /\ SearchOff
    /\ ExtractIdle
    /\ AuthOff
    /\ HeapOff
    /\ BodyOff
    /\ OtpOff
    /\ given \in [Calls -> PairResponses]
    /\ cpc = [c \in Calls |-> "idle"]
    /\ pending = [c \in Calls |-> given[c].events]
    /\ snapshots = [c \in Calls |-> EmptyObject]
    /\ outcomes = [c \in Calls |-> Pending]

NextPair ==
    \E c \in Calls :
        \/ CallFetch(c)
        \/ CallConsume(c)
        \/ CallFinish(c)

SpecPair == InitPair /\ [][NextPair]_vars

(***************************************************************************)
(* The merge functions on objects held by reference.  The heap is a list   *)
(* of cells; an address is an index into it.  A cell is an object (its     *)
(* fields), an array of addresses, or an array of values.  The fields      *)
(* named in RefFields hold an address, the others hold a value.            *)
(***************************************************************************)
MaxHeapMerges == 3   \* number of mergeEvent calls made on one heap

RefFields ==
    {"blocks", "sources_list", "markdown_block", "web_result_block", "chunks",
     "web_results"}

ObjCell(fields) == [kind |-> "obj", fields |-> fields, items |-> <<>>]
RefsCell(items) == [kind |-> "refs", fields |-> EmptyObject, items |-> items]
ValsCell(items) == [kind |-> "vals", fields |-> EmptyObject, items |-> items]

\* A new object or array: `h` is the heap with it, `r` its address.
Alloc(h, cell) == [h |-> Append(h, cell), r |-> Len(h) + 1]

\* Nothing is allocated: `r` is an address or a value already there.
Same(h, r) == [h |-> h, r |-> r]

FieldsOf(h, a) == h[a].fields
ItemsOf(h, a) == h[a].items

\* object.k = v
SetField(h, a, k, v) == [h EXCEPT ![a].fields = With(@, k, v)]

\* array.push(v)
Push(h, a, v) == [h EXCEPT ![a].items = Append(@, v)]

\* array[i] = v
SetItem(h, a, i, v) == [h EXCEPT ![a].items[i] = v]

\* The value an address stands for, with everything it refers to.
RECURSIVE Deref(_, _)
Deref(h, a) ==
    LET cell == h[a]
    IN  IF cell.kind = "vals" THEN cell.items
        ELSE IF cell.kind = "refs"
        THEN [i \in 1 .. Len(cell.items) |-> Deref(h, cell.items[i])]
        ELSE [k \in DOMAIN cell.fields |->
                 IF k \in RefFields THEN Deref(h, cell.fields[k]) ELSE cell.fields[k]]

\* Statement sequencing: `rest` applied to the value of `first`, which is
\* computed once.
Then(first, rest(_)) == CHOOSE out \in {rest(x) : x \in {first}} : TRUE

\* An object as JSON.parse builds it: every nested object and array is new.
\* `keys` are the fields of `value` still to store, `fields` the fields of
\* the object with the addresses of those stored so far.
RECURSIVE StoreFields(_, _, _, _)
RECURSIVE StoreArray(_, _, _)

StoreObject(h, value) ==
    Then(StoreFields(h, value, DOMAIN value \cap RefFields, value),
         LAMBDA stored : Alloc(stored.h, ObjCell(stored.r)))

StoreFields(h, value, keys, fields) ==
    IF keys = {} THEN Same(h, fields)
    ELSE LET k == CHOOSE j \in keys : TRUE
         IN  Then(IF k = "blocks" THEN StoreArray(h, value[k], <<>>)
                  ELSE IF k \in {"markdown_block", "web_result_block"}
                  THEN StoreObject(h, value[k])
                  ELSE Alloc(h, ValsCell(value[k])),
                  LAMBDA part :
                      StoreFields(part.h, value, keys \ {k}, With(fields, k, part.r)))

StoreArray(h, values, refs) ==
    IF values = <<>> THEN Alloc(h, RefsCell(refs))
    ELSE Then(StoreObject(h, Head(values)),
              LAMBDA first : StoreArray(first.h, Tail(values), Append(refs, first.r)))

\* Lines 109-122: the chunk list of the merged block, given currentChunks.
heapMergedChunks(currentChunks, nf) ==
    LET h == currentChunks.h
    IN  IF Has(nf, "chunks")
        THEN IF Has(nf, "chunk_starting_offset") /\ nf.chunk_starting_offset > 0
             THEN Alloc(h, ValsCell(SliceTo(ItemsOf(h, currentChunks.r),
                                            nf.chunk_starting_offset)
                                      \o ItemsOf(h, nf.chunks)))
             ELSE Alloc(h, ValsCell(ItemsOf(h, nf.chunks)))
        ELSE currentChunks

\* mergeMarkdownBlock(existing, incoming) on the addresses of two objects.
heapMergeMarkdownBlock(h, existing, incoming) ==
    LET ef == FieldsOf(h, existing)
        nf == FieldsOf(h, incoming)
    IN  Then(IF Has(ef, "chunks") THEN Same(h, ef.chunks) ELSE Alloc(h, ValsCell(<<>>)),
             LAMBDA currentChunks :
        Then(heapMergedChunks(currentChunks, nf),
             LAMBDA mergedChunks :
        Alloc(mergedChunks.h,
              ObjCell(With(Spread(Without(Spread(ef, nf), "answer"),
                                  MergedAnswer(ef, nf,
                                               ItemsOf(mergedChunks.h, mergedChunks.r))),
                           "chunks", mergedChunks.r)))))

\* x ?? {} for a field holding an object.
ObjectOrNew(h, fields, k) ==
    IF Has(fields, k) THEN Same(h, fields[k]) ELSE Alloc(h, ObjCell(EmptyObject))

\* x ?? [] for a field holding an array of objects.
ArrayOrNew(h, fields, k) ==
    IF Has(fields, k) THEN Same(h, fields[k]) ELSE Alloc(h, RefsCell(<<>>))

\* incoming.web_result_block?.web_results ??
\* existing.web_result_block?.web_results ?? []
heapWebResults(h, ef, nf) ==
    IF Has(nf, "web_result_block") /\ Has(FieldsOf(h, nf.web_result_block), "web_results")
    THEN Same(h, FieldsOf(h, nf.web_result_block).web_results)
    ELSE IF /\ Has(ef, "web_result_block")
            /\ Has(FieldsOf(h, ef.web_result_block), "web_results")
    THEN Same(h, FieldsOf(h, ef.web_result_block).web_results)
    ELSE Alloc(h, ValsCell(<<>>))

\* Lines 143-148: merged.markdown_block = mergeMarkdownBlock(...); the heap
\* after it.
heapSetMarkdown(h, merged, ef, nf) ==
    IF Has(ef, "markdown_block") \/ Has(nf, "markdown_block")
    THEN Then(ObjectOrNew(h, ef, "markdown_block"),
              LAMBDA e :
         Then(ObjectOrNew(e.h, nf, "markdown_block"),
              LAMBDA n :
         Then(heapMergeMarkdownBlock(n.h, e.r, n.r),
              LAMBDA m : SetField(m.h, merged, "markdown_block", m.r))))
    ELSE h

\* Lines 150-155: merged.web_result_block = { web_results: ... }; the heap
\* after it.
heapSetWebResults(h, merged, ef, nf) ==
    IF Has(ef, "web_result_block") \/ Has(nf, "web_result_block")
    THEN Then(heapWebResults(h, ef, nf),
              LAMBDA results :
         Then(Alloc(results.h, ObjCell([web_results |-> results.r])),
              LAMBDA block : SetField(block.h, merged, "web_result_block", block.r)))
    ELSE h

\* mergeSingleBlock(existing, incoming) on the addresses of two blocks.
heapMergeSingleBlock(h, existing, incoming) ==
    LET ef == FieldsOf(h, existing)
        nf == FieldsOf(h, incoming)
    IN  Then(Alloc(h, ObjCell(Spread(ef, nf))),
             LAMBDA merged :
        Then(heapSetMarkdown(merged.h, merged.r, ef, nf),
             LAMBDA withMarkdown :
        Then(heapSetWebResults(withMarkdown, merged.r, ef, nf),
             LAMBDA withWeb : [h |-> withWeb, r |-> merged.r])))

\* blocks.map((block) => ({ ...block })) into `copies`, oldest first.
RECURSIVE CopyEach(_, _, _)
CopyEach(h, blocks, copies) ==
    IF blocks = <<>> THEN Alloc(h, RefsCell(copies))
    ELSE Then(Alloc(h, ObjCell(FieldsOf(h, Head(blocks)))),
              LAMBDA copy : CopyEach(copy.h, Tail(blocks), Append(copies, copy.r)))

\* Mutant of CopyBlocks: the result is the accumulated array itself.
CopyBlocksAlias(h, existing) == Same(h, existing)

\* Line 165: const result = existing.map((block) => ({ ...block }))
CopyBlocks(h, existing) == CopyEach(h, ItemsOf(h, existing), <<>>)

\* result.findIndex(...) over the blocks the result array refers to.
RECURSIVE heapFindIndex(_, _, _, _)
heapFindIndex(h, refs, usage, i) ==
    IF i > Len(refs) THEN 0
    ELSE IF /\ Has(FieldsOf(h, refs[i]), "intended_usage")
            /\ FieldsOf(h, refs[i]).intended_usage = usage
    THEN i
    ELSE heapFindIndex(h, refs, usage, i + 1)

\* Lines 168-182: one turn of the loop of mergeBlocks; the heap after it.
heapMergeOneBlock(h, result, incomingBlock) ==
    LET nf == FieldsOf(h, incomingBlock)
    IN  Then(IF Unkeyed(nf) THEN 0
             ELSE heapFindIndex(h, ItemsOf(h, result), nf.intended_usage, 1),
             LAMBDA index :
                 IF index = 0
                 THEN Then(Alloc(h, ObjCell(nf)),
                           LAMBDA copy : Push(copy.h, result, copy.r))
                 ELSE Then(heapMergeSingleBlock(h, ItemsOf(h, result)[index],
                                                incomingBlock),
                           LAMBDA m : SetItem(m.h, result, index, m.r)))

\* Lines 167-183: the loop of mergeBlocks over the incoming blocks left.
RECURSIVE heapBlocksLoop(_, _, _)
heapBlocksLoop(h, result, incoming) ==
    IF incoming = <<>> THEN Same(h, result)
    ELSE Then(heapMergeOneBlock(h, result, Head(incoming)),
              LAMBDA after : heapBlocksLoop(after, result, Tail(incoming)))

\* mergeBlocks(existing, incoming) on the addresses of two arrays.
heapMergeBlocks(h, existing, incoming) ==
    Then(CopyBlocks(h, existing),
         LAMBDA result : heapBlocksLoop(result.h, result.r, ItemsOf(h, incoming)))

\* x.sources_list ?? []
SourcesOf(h, fields) ==
    IF Has(fields, "sources_list") THEN ItemsOf(h, fields.sources_list) ELSE <<>>

\* Lines 198-200: merged.blocks = mergeBlocks(...); the heap after it.
heapSetBlocks(h, merged, ef, nf) ==
    IF Has(ef, "blocks") \/ Has(nf, "blocks")
    THEN Then(ArrayOrNew(h, ef, "blocks"),
              LAMBDA e :
         Then(ArrayOrNew(e.h, nf, "blocks"),
              LAMBDA n :
         Then(heapMergeBlocks(n.h, e.r, n.r),
              LAMBDA m : SetField(m.h, merged, "blocks", m.r))))
    ELSE h

\* Lines 202-207: merged.sources_list = [...]; the heap after it.
heapSetSources(h, merged, sources) ==
    IF Len(sources) > 0
    THEN Then(Alloc(h, ValsCell(sources)),
              LAMBDA list : SetField(list.h, merged, "sources_list", list.r))
    ELSE h

\* mergeEvent(existing, incoming) on the addresses of two events.
heapMergeEvent(h, existing, incoming) ==
    LET ef == FieldsOf(h, existing)
        nf == FieldsOf(h, incoming)
    IN  Then(Alloc(h, ObjCell(Spread(ef, nf))),
             LAMBDA merged :
        Then(heapSetBlocks(merged.h, merged.r, ef, nf),
             LAMBDA withBlocks :
        Then(heapSetSources(withBlocks, merged.r, SourcesOf(h, ef) \o SourcesOf(h, nf)),
             LAMBDA withSources : [h |-> withSources, r |-> merged.r])))

HeapEvents ==
    { [text |-> <<"a">>],
      [blocks |-> <<[intended_usage |-> <<"m">>,
                     markdown_block |-> [chunks |-> <<<<"a">>>>,
                                         chunk_starting_offset |-> 0]]>>],
      [blocks |-> <<[intended_usage |-> <<"m">>,
                     markdown_block |-> [chunks |-> <<<<"b">>>>,
                                         chunk_starting_offset |-> 1]]>>],
      [blocks |-> <<[intended_usage |-> <<"m">>,
                     markdown_block |-> [answer |-> <<"x">>]]>>],
      [blocks |-> <<[intended_usage |-> <<"w">>,
                     web_result_block |-> [web_results |-> <<SrcA>>]],
                    [text |-> <<"u">>]>>,
       sources_list |-> <<SrcA>>],
      [blocks |-> <<[intended_usage |-> <<"w">>]>>, sources_list |-> <<SrcB>>] }

\* snapshot = mergeEvent(snapshot, event) with a newly parsed event, or
\* mergeEvent(snapshot, snapshot).
HeapMerge ==
    /\ accRef > 0
    /\ merges < MaxHeapMerges
    /\ \E event \in HeapEvents, self \in BOOLEAN :
          \E parsed \in {IF self THEN Same(heap, accRef) ELSE StoreObject(heap, event)} :
              \E merged \in {heapMergeEvent(parsed.h, accRef, parsed.r)} :
                  /\ heap' = merged.h
                  /\ accRef' = merged.r
                  /\ incRef' = parsed.r
                  /\ prevHeap' = parsed.h
                  /\ prevAccRef' = accRef
    /\ merges' = merges + 1
    /\ UNCHANGED <<mdVars, foldVars, streamVars, searchVars, extractVars, authVars, pairVars,
                   otpVars, bodyVars>>

InitHeap ==
    /\ MdIdle
    /\ FoldIdle
    /\ StreamIdle
    /\ SearchOff
    /\ ExtractIdle
    /\ AuthOff
    /\ PairOff
    /\ OtpOff
    /\ BodyOff
    /\ heap = <<ObjCell(EmptyObject)>>
    /\ accRef = 1
    /\ incRef = 0
    /\ prevHeap = <<>>
    /\ prevAccRef = 0
    /\ merges = 0

SpecHeap == InitHeap /\ [][HeapMerge]_vars

(***************************************************************************)
(* Claims on mergeMarkdownBlock (checked under SpecMd).                    *)
(***************************************************************************)
\* C1: the chunk list returned by mergeMarkdownBlock is the accumulated list
\* (empty if none) when incoming carries no chunk list; exactly the incoming
\* list when incoming carries one and its offset is absent or <= 0; and, for a
\* positive offset N, the first min(N, length) accumulated chunks followed by
\* the incoming chunks.
C1_ChunkSplice ==
    mdApplied =>
        LET ex  == IF Has(mdExisting, "chunks") THEN mdExisting.chunks ELSE <<>>
            out == mdMerged.chunks
        IN  /\ ~Has(mdIncoming, "chunks") => out = ex
            /\ /\ Has(mdIncoming, "chunks")
               /\ \/ ~Has(mdIncoming, "chunk_starting_offset")
                  \/ mdIncoming.chunk_starting_offset <= 0
               => out = mdIncoming.chunks
            /\ /\ Has(mdIncoming, "chunks")
               /\ Has(mdIncoming, "chunk_starting_offset")
               /\ mdIncoming.chunk_starting_offset > 0
               => LET n    == mdIncoming.chunk_starting_offset
                      kept == IF Len(ex) < n THEN Len(ex) ELSE n
                  IN  /\ Len(out) = kept + Len(mdIncoming.chunks)
                      /\ \A i \in 1 .. kept : out[i] = ex[i]
                      /\ \A j \in 1 .. Len(mdIncoming.chunks) :
                            out[kept + j] = mdIncoming.chunks[j]

\* C1 witness: a splice at offset 1 into two accumulated chunks.
C1_Witness ==
    /\ mdApplied
    /\ Has(mdExisting, "chunks") /\ Len(mdExisting.chunks) = 2
    /\ Has(mdIncoming, "chunks") /\ Len(mdIncoming.chunks) = 1
    /\ Has(mdIncoming, "chunk_starting_offset")
    /\ mdIncoming.chunk_starting_offset = 1
    /\ mdMerged.chunks = <<mdExisting.chunks[1], mdIncoming.chunks[1]>>

\* C2: the answer returned by mergeMarkdownBlock is incoming's answer when
\* incoming provides one; otherwise the in-order concatenation of the returned
\* chunk list when that list is non-empty; otherwise the accumulated answer
\* (absent when there was none).
C2_MergedAnswer ==
    mdApplied =>
        IF Has(mdIncoming, "answer")
        THEN Has(mdMerged, "answer") /\ mdMerged.answer = mdIncoming.answer
        ELSE IF Len(mdMerged.chunks) > 0
        THEN Has(mdMerged, "answer") /\ mdMerged.answer = JoinEmpty(mdMerged.chunks)
        ELSE /\ Has(mdMerged, "answer") = Has(mdExisting, "answer")
             /\ Has(mdExisting, "answer") => mdMerged.answer = mdExisting.answer

\* C2 witness: incoming gives no answer, the accumulated payload has one, and
\* the returned answer is the concatenation of a spliced chunk list.
C2_Witness ==
    /\ mdApplied
    /\ ~Has(mdIncoming, "answer")
    /\ Has(mdExisting, "answer") /\ mdExisting.answer = <<"x">>
    /\ mdMerged.chunks = <<<<"a">>, <<"b">>>>
    /\ mdMerged.answer = <<"a", "b">>

(***************************************************************************)
(* Claims on the fold with mergeEvent (checked under SpecFold).            *)
(***************************************************************************)
\* C3: after folding any sequence of events from the empty snapshot, the
\* accumulated sources_list (empty if absent) is the concatenation, in arrival
\* order, of the events' sources_list values.
C3_SourcesAccumulate ==
    (IF Has(snapshot, "sources_list") THEN snapshot.sources_list ELSE <<>>) = srcConcat

\* C3 witness: three events folded, the same source arriving more than once,
\* the last event carrying no sources_list.
C3_Witness ==
    /\ folded = 3
    /\ ~Has(lastIncoming, "sources_list")
    /\ Has(snapshot, "sources_list")
    /\ snapshot.sources_list = <<SrcA, SrcA, SrcB, SrcA>>

\* C4: in every snapshot of the fold, no two blocks share a non-empty
\* intended_usage key.
C4_OneBlockPerKey ==
    Has(snapshot, "blocks") =>
        \A i, j \in 1 .. Len(snapshot.blocks) :
            /\ i < j
            /\ ~Unkeyed(snapshot.blocks[i])
            /\ ~Unkeyed(snapshot.blocks[j])
            => snapshot.blocks[i].intended_usage # snapshot.blocks[j].intended_usage

\* C4 witness: the first event carried two blocks with the same key, and the
\* snapshot holds one block for it.
C4_Witness ==
    /\ folded = 1
    /\ Has(lastIncoming, "blocks")
    /\ Len(lastIncoming.blocks) = 2
    /\ ~Unkeyed(lastIncoming.blocks[1])
    /\ ~Unkeyed(lastIncoming.blocks[2])
    /\ lastIncoming.blocks[1].intended_usage = lastIncoming.blocks[2].intended_usage
    /\ lastIncoming.blocks[1] # lastIncoming.blocks[2]
    /\ Len(snapshot.blocks) = 1

\* The web_results list of a block, empty when the block carries none.
WebResultsOf(block) ==
    IF "web_result_block" \in DOMAIN block
          /\ "web_results" \in DOMAIN block["web_result_block"]
    THEN block["web_result_block"]["web_results"]
    ELSE <<>>

\* The positions of the blocks of the latest event that carry the key `usage`.
SameKey(usage) ==
    {j \in 1 .. Len(lastIncoming.blocks) :
        /\ ~Unkeyed(lastIncoming.blocks[j])
        /\ lastIncoming.blocks[j].intended_usage = usage}

\* C12: when the latest event's blocks with the key of an accumulated block
\* all carry an absent or empty web_results list, the accumulated block's
\* web_results list is unchanged by the merge; when the last of them carries
\* a non-empty list, that list is the merged one.
C12_WebResultsKept ==
    (folded > 0 /\ Has(prevSnapshot, "blocks") /\ Has(lastIncoming, "blocks")) =>
        \A i \in 1 .. Len(prevSnapshot.blocks) :
            LET acc == prevSnapshot.blocks[i]
            IN  (~Unkeyed(acc) /\ SameKey(acc.intended_usage) # {}) =>
                    LET same == SameKey(acc.intended_usage)
                        last == CHOOSE j \in same : \A k \in same : k <= j
                    IN  /\ (\A j \in same : WebResultsOf(lastIncoming.blocks[j]) = <<>>)
                              => WebResultsOf(snapshot.blocks[i]) = WebResultsOf(acc)
                        /\ WebResultsOf(lastIncoming.blocks[last]) # <<>>
                              => WebResultsOf(snapshot.blocks[i])
                                    = WebResultsOf(lastIncoming.blocks[last])

\* The blocks list of an event, empty when the event carries none.
BlocksOf(event) == IF "blocks" \in DOMAIN event THEN event["blocks"] ELSE <<>>

\* The key of a block; <<>> for a block without key.
KeyOf(block) ==
    IF "intended_usage" \in DOMAIN block THEN block["intended_usage"] ELSE <<>>

\* The positions of the latest event's blocks that open a new block: a block
\* without key, or with a key that neither an accumulated block nor an
\* earlier block of the event carries.
NewBlocks ==
    LET ex  == BlocksOf(prevSnapshot)
        inc == BlocksOf(lastIncoming)
    IN  {j \in 1 .. Len(inc) :
            \/ KeyOf(inc[j]) = <<>>
            \/ /\ \A i \in 1 .. Len(ex) : KeyOf(ex[i]) # KeyOf(inc[j])
               /\ \A k \in 1 .. j - 1 : KeyOf(inc[k]) # KeyOf(inc[j])}

\* C14: after a merge, every accumulated block is at its position, with its
\* key, and is unchanged when it has no key or no incoming block has its key;
\* behind them come, in incoming order, the incoming blocks that have no key
\* (each exactly as it arrived) or a key not present before.
C14_BlockOrder ==
    (folded > 0 /\ ("blocks" \in DOMAIN prevSnapshot \/ "blocks" \in DOMAIN lastIncoming)) =>
        LET ex  == BlocksOf(prevSnapshot)
            inc == BlocksOf(lastIncoming)
            out == BlocksOf(snapshot)
            Rank(j) == Cardinality({k \in NewBlocks : k <= j})
        IN  /\ Len(out) = Len(ex) + Cardinality(NewBlocks)
            /\ \A i \in 1 .. Len(ex) :
                  /\ KeyOf(out[i]) = KeyOf(ex[i])
                  /\ (KeyOf(ex[i]) = <<>>
                        \/ \A j \in 1 .. Len(inc) : KeyOf(inc[j]) # KeyOf(ex[i]))
                       => out[i] = ex[i]
            /\ \A j \in NewBlocks :
                  /\ KeyOf(out[Len(ex) + Rank(j)]) = KeyOf(inc[j])
                  /\ KeyOf(inc[j]) = <<>> => out[Len(ex) + Rank(j)] = inc[j]

\* C14 witness: onto a keyed and an unkeyed accumulated block arrive an
\* unkeyed block and a block with the accumulated key: the first is appended,
\* the second merged in place.
C14_Witness ==
    /\ folded = 2
    /\ Len(BlocksOf(prevSnapshot)) = 2
    /\ KeyOf(prevSnapshot.blocks[1]) = KeyMarkdown
    /\ KeyOf(prevSnapshot.blocks[2]) = <<>>
    /\ Len(BlocksOf(lastIncoming)) = 2
    /\ KeyOf(lastIncoming.blocks[1]) = <<>>
    /\ KeyOf(lastIncoming.blocks[2]) = KeyMarkdown
    /\ Len(snapshot.blocks) = 3
    /\ snapshot.blocks[1] # prevSnapshot.blocks[1]
    /\ snapshot.blocks[3] = lastIncoming.blocks[1]

(***************************************************************************)
(* Claims on the fold of scalar fields (checked under SpecScalars).        *)
(***************************************************************************)
\* The positions of the merged events in which `field` is present.
PresentIn(field) == {i \in 1 .. Len(mergedEvents) : field \in DOMAIN mergedEvents[i]}

\* C13: for every top-level scalar field, the snapshot of the fold holds the
\* value of the last merged event in which the field is present, and no value
\* when no merged event carried the field.
C13_LastPresentWins ==
    \A field \in ScalarFields :
        IF PresentIn(field) = {}
        THEN field \notin DOMAIN snapshot
        ELSE LET last == CHOOSE i \in PresentIn(field) :
                             \A j \in PresentIn(field) : j <= i
             IN  field \in DOMAIN snapshot
                    /\ snapshot[field] = mergedEvents[last][field]

\* C13 witness: text was set, overridden by a later event, and then left
\* untouched by an event that carries other fields only.
C13_Witness ==
    /\ folded = 3
    /\ mergedEvents[1] = [text |-> <<"a">>]
    /\ "text" \in DOMAIN mergedEvents[2]
    /\ mergedEvents[2]["text"] = <<"b">>
    /\ "text" \notin DOMAIN mergedEvents[3]
    /\ mergedEvents[3] # EmptyObject
    /\ snapshot["text"] = <<"b">>

(***************************************************************************)
(* Claims on the extraction (checked under SpecExtract and SpecDedupe).    *)
(***************************************************************************)
\* The text a block gives: its trimmed answer when that is not empty, else
\* its trimmed chunk concatenation; <<>> when both are empty or missing.
TextOfBlock(block) ==
    LET md == IF "markdown_block" \in DOMAIN block
              THEN block["markdown_block"] ELSE EmptyObject
        answer == IF "answer" \in DOMAIN md THEN Trim(md["answer"]) ELSE <<>>
        chunks == IF "chunks" \in DOMAIN md THEN Trim(JoinEmpty(md["chunks"])) ELSE <<>>
    IN  IF answer # <<>> THEN answer ELSE chunks

\* The blocks of exEvent that give a text and whose key contains "markdown",
\* and those whose key is exactly "ask_text".
MarkdownTexts ==
    {i \in 1 .. Len(BlocksOf(exEvent)) :
        /\ Includes(KeyOf(exEvent.blocks[i]), Markdown)
        /\ TextOfBlock(exEvent.blocks[i]) # <<>>}

AskTexts ==
    {i \in 1 .. Len(BlocksOf(exEvent)) :
        /\ KeyOf(exEvent.blocks[i]) = KeyAskText
        /\ TextOfBlock(exEvent.blocks[i]) # <<>>}

\* C15: extractAnswer returns the text of the first markdown block that
\* gives one; with no such block, the text of the first ask_text block that
\* gives one; with none, the trimmed top-level text; else the empty string.
C15_AnswerPriority ==
    exApplied =>
        exAnswer =
            IF MarkdownTexts # {} THEN TextOfBlock(exEvent.blocks[First(MarkdownTexts)])
            ELSE IF AskTexts # {} THEN TextOfBlock(exEvent.blocks[First(AskTexts)])
            ELSE IF "text" \in DOMAIN exEvent THEN Trim(exEvent["text"])
            ELSE <<>>

\* C15 witness: an ask_text block comes before a markdown block whose answer
\* is blank and whose chunks give the text, and there is a top-level text.
C15_Witness ==
    /\ exApplied
    /\ Len(BlocksOf(exEvent)) = 2
    /\ KeyOf(exEvent.blocks[1]) = KeyAskText
    /\ KeyOf(exEvent.blocks[2]) = KeyMarkdown
    /\ "text" \in DOMAIN exEvent
    /\ Trim(exEvent["text"]) = <<"Z">>
    /\ exAnswer = <<"a", "b">>

\* A legacy source in the common shape: title -> name, date -> timestamp.
CommonShape(source) ==
    [k \in {j \in {"name", "url", "snippet", "timestamp"} :
               (IF j = "name" THEN "title" ELSE IF j = "timestamp" THEN "date" ELSE j)
                   \in DOMAIN source}
       |-> source[IF k = "name" THEN "title" ELSE IF k = "timestamp" THEN "date" ELSE k]]

\* The blocks of exEvent keyed exactly "web_results".
WebBlocks == {i \in 1 .. Len(BlocksOf(exEvent)) : KeyOf(exEvent.blocks[i]) = KeyWeb}

\* C16: extractSources returns the deduplicated list of the first block
\* keyed "web_results" when that list is not empty, and otherwise the
\* deduplicated legacy sources_list in the common shape (empty when there is
\* none); the two are never mixed.
C16_SourcePriority ==
    exApplied =>
        LET blockList == IF WebBlocks = {} THEN <<>>
                         ELSE WebResultsOf(exEvent.blocks[First(WebBlocks)])
            legacy    == IF "sources_list" \in DOMAIN exEvent
                         THEN exEvent["sources_list"] ELSE <<>>
        IN  exSources =
                IF blockList # <<>> THEN dedupeSourcesByUrl(blockList)
                ELSE dedupeSourcesByUrl([i \in 1 .. Len(legacy) |-> CommonShape(legacy[i])])

\* C16 witness: the block list is not empty and legacy sources exist; the
\* result holds the block's first source only.
C16_Witness ==
    /\ exApplied
    /\ WebBlocks # {}
    /\ Len(WebResultsOf(exEvent.blocks[First(WebBlocks)])) = 2
    /\ "sources_list" \in DOMAIN exEvent
    /\ Len(exEvent["sources_list"]) = 3
    /\ exSources = <<[name |-> "A", url |-> <<"u", "/", "a">>]>>

\* A source has a URL: the field is set and is not blank.
HasUrl(source) == "url" \in DOMAIN source /\ Trim(source["url"]) # <<>>

\* The normalized URL: trimmed, one trailing "/" removed, lower-cased.
UrlKey(source) ==
    LET t == Trim(source["url"])
    IN  ToLowerCase(IF t[Len(t)] = "/" THEN SubSeq(t, 1, Len(t) - 1) ELSE t)

\* The positions dedupeSourcesByUrl is to keep: a source without URL, and
\* the first source of each normalized URL.
KeptSources ==
    {i \in 1 .. Len(ddSources) :
        \/ ~HasUrl(ddSources[i])
        \/ \A j \in 1 .. i - 1 :
              HasUrl(ddSources[j]) => UrlKey(ddSources[j]) # UrlKey(ddSources[i])}

\* C17: dedupeSourcesByUrl returns, in their order, exactly the sources
\* without URL and the first source of each normalized URL; so no two
\* returned sources that have a URL share a normalized URL.
C17_DedupeByUrl ==
    ddApplied =>
        /\ Len(ddDeduped) = Cardinality(KeptSources)
        /\ \A i \in KeptSources :
              ddDeduped[Cardinality({k \in KeptSources : k <= i})] = ddSources[i]
        /\ \A i, j \in 1 .. Len(ddDeduped) :
              (i < j /\ HasUrl(ddDeduped[i]) /\ HasUrl(ddDeduped[j]))
                  => UrlKey(ddDeduped[i]) # UrlKey(ddDeduped[j])

\* C17 witness: a page, a source without URL, and the page again under
\* another spelling of its URL: the third is dropped.
C17_Witness ==
    /\ ddApplied
    /\ Len(ddSources) = 3
    /\ HasUrl(ddSources[1])
    /\ ~HasUrl(ddSources[2])
    /\ HasUrl(ddSources[3])
    /\ ddSources[3]["url"] # ddSources[1]["url"]
    /\ UrlKey(ddSources[3]) = UrlKey(ddSources[1])
    /\ ddDeduped = <<ddSources[1], ddSources[2]>>

(***************************************************************************)
(* Claims on readSseEvents (checked under SpecStream).                     *)
(***************************************************************************)
\* A step issues reader.read(): a read is pending after it, and either none
\* was pending before or the pending one resolved in this step.
ReadIssued == rpc' = "read" /\ (rpc # "read" \/ body' # body)

\* C8: once the cancellation signal is raised, readSseEvents issues no
\* further read, yields no further event (not even one buffered from the
\* chunk being processed), and does not raise (only a read already pending
\* when the signal was raised can still fail).
C8_SilentAfterAbort ==
    [][aborted =>
          /\ yielded' = yielded
          /\ ~ReadIssued
          /\ (raised' /\ ~raised => rpc = "read")]_vars

\* C9: a flushed payload that trims to [DONE] is the last one flushed: the
\* generator has ended, released the reader, and every event yielded comes
\* from a payload flushed before it.
C9_StopsAtDone ==
    \A i \in 1 .. Len(flushed) :
        Trim(flushed[i]) = DoneMarker =>
            /\ i = Len(flushed)
            /\ rpc = "end"
            /\ ~locked
            /\ Len(yielded) < i

\* C9 witness: the sentinel was flushed after one event, and a complete frame
\* behind it was left undecoded.
C9_Witness ==
    /\ rpc = "end"
    /\ Len(flushed) = 2
    /\ Trim(flushed[2]) = DoneMarker
    /\ Len(yielded) = 1
    /\ bufferedText \o body = DataPrefix \o <<"{", "b", "}", CR, NL, CR, NL>>

\* The events of the flushed payloads that are JSON objects, in order.
RECURSIVE ObjectsOf(_)
ObjectsOf(payloads) ==
    IF payloads = <<>> THEN <<>>
    ELSE LET parsed == JsonParse(Trim(Head(payloads)))
         IN  IF parsed.kind = "object"
             THEN <<parsed.value>> \o ObjectsOf(Tail(payloads))
             ELSE ObjectsOf(Tail(payloads))

\* The events of the flushed payloads that are valid JSON, in order: what
\* each gives when decoded alone; a payload that is not valid JSON gives none.
RECURSIVE ValidEventsOf(_)
ValidEventsOf(payloads) ==
    IF payloads = <<>> THEN <<>>
    ELSE LET parsed == JsonParse(Trim(Head(payloads)))
             alone  == flushEvent(<<Head(payloads)>>)
         IN  IF parsed.kind # "error" /\ alone.kind = "event"
             THEN <<alone.event>> \o ValidEventsOf(Tail(payloads))
             ELSE ValidEventsOf(Tail(payloads))

\* Some flushed payload is the sentinel.
DoneFlushed == \E i \in 1 .. Len(flushed) : Trim(flushed[i]) = DoneMarker

\* C10: the events yielded are exactly those of the valid payloads among the
\* flushed ones, in arrival order, whatever invalid payloads lie between
\* them; and an invalid payload does not end the sequence: a generator that
\* ended without sentinel, cancellation or read failure has consumed the
\* whole stream and every complete line of it.
C10_InvalidJsonDropped ==
    /\ yielded = ValidEventsOf(flushed)
    /\ (rpc = "end" /\ ~DoneFlushed /\ ~aborted /\ ~raised) =>
          (body = <<>> /\ IndexOf(bufferedText, NL) = 0)

\* C10 witness: a payload that is not valid JSON was flushed between two
\* events, and both events were yielded.
C10_Witness ==
    /\ rpc = "end"
    /\ ~aborted
    /\ ~raised
    /\ Len(flushed) = 3
    /\ JsonParse(Trim(flushed[2])).kind = "error"
    /\ yielded = <<[text |-> <<"a">>], [text |-> <<"b">>]>>

\* C11: a flushed payload is yielded only when it parses to a JSON object:
\* the events yielded are exactly the objects among the flushed payloads, a
\* payload that is a JSON number, null or array giving no event.
C11_NonObjectDropped ==
    yielded = ObjectsOf(flushed)

(***************************************************************************)
(* Claims on searchPerplexity (checked under Spec).                        *)
(***************************************************************************)
\* An event whose final flag is true or whose status is exactly "COMPLETED".
TerminalEvent(event) ==
    \/ "final" \in DOMAIN event /\ event["final"] = TRUE
    \/ "status" \in DOMAIN event /\ event["status"] = "COMPLETED"

\* C5: the loop consumes the events in order and stops at the first terminal
\* one: no event is taken from the decoder after a terminal event, the
\* terminal event is merged, and the search has then ended with what the
\* snapshot up to that event gives.
C5_StopsAtTerminal ==
    /\ \A i \in 1 .. Len(yielded) : TerminalEvent(yielded[i]) => i = Len(yielded)
    /\ folded <= Len(yielded)
    /\ folded > 0 => lastIncoming = yielded[folded]
    /\ (folded > 0 /\ TerminalEvent(lastIncoming)) =>
          /\ folded = Len(yielded)
          /\ snapshot = mergeEvent(prevSnapshot, lastIncoming)
          /\ spc = "done"
          /\ rpc = "end"
          /\ outcome = Finish(snapshot)

\* C5 witness: the first event was terminal and gave a result, while a frame
\* carrying an error code was still to be decoded.
C5_Witness ==
    /\ spc = "done"
    /\ folded = 1
    /\ TerminalEvent(lastIncoming)
    /\ outcome.kind = "result"
    /\ bufferedText \o body = Frame(<<"{", "E", "}">>)

\* Some merged event carried a (non-empty) error code.
ErrorConsumed ==
    \E i \in 1 .. folded :
        "error_code" \in DOMAIN yielded[i] /\ yielded[i]["error_code"] # ""

\* C6: once a consumed event carries an error code, a search that is not
\* cancelled ends in Failed with classification STREAM, whatever is consumed
\* after it.
C6_ErrorIsSticky ==
    (spc = "done" /\ ErrorConsumed /\ ~aborted) =>
        (outcome.kind = "error" /\ outcome.code = "STREAM")

\* C7: a search during which the cancellation signal was raised ends in a
\* Cancelled outcome, an error classification of its own.
C7_CancelledDistinct ==
    (spc = "done" /\ aborted) =>
        /\ outcome.kind = "error"
        /\ outcome.code \notin {"AUTH", "RATE_LIMIT", "NETWORK", "STREAM", "EMPTY"}

\* The decoding of the stream ended without error: the search is over, and
\* the decoder was run and did not raise.
DecodedWithoutError == spc = "done" /\ rpc = "end" /\ ~raised

\* The snapshot carries an error code or an error message.
CarriesError ==
    \/ "error_code" \in DOMAIN snapshot /\ snapshot["error_code"] # ""
    \/ "error_message" \in DOMAIN snapshot /\ snapshot["error_message"] # ""

\* C18: a search whose stream was decoded without error, whose final
\* snapshot carries no error and gives neither answer nor sources, fails with
\* EMPTY; and no result is returned whose answer and source list are both
\* empty.
C18_EmptyIsFailure ==
    /\ (/\ DecodedWithoutError
        /\ ~CarriesError
        /\ extractAnswer(snapshot) = <<>>
        /\ extractSources(snapshot) = <<>>)
          => (outcome.kind = "error" /\ outcome.code = "EMPTY")
    /\ outcome.kind = "result" =>
          (outcome.result.answer # <<>> \/ outcome.result.sources # <<>>)

\* C18 witness: a terminal event without text or sources was merged, and the
\* search failed with EMPTY.
C18_Witness ==
    /\ DecodedWithoutError
    /\ folded = 1
    /\ lastIncoming = [status |-> "COMPLETED"]
    /\ outcome.kind = "error"
    /\ outcome.code = "EMPTY"

\* C19: every result returned has a non-empty answer; when the snapshot gave
\* no answer text, the result has at least one source and the placeholder as
\* its answer, and otherwise the answer extracted.
C19_AnswerNeverEmpty ==
    outcome.kind = "result" =>
        /\ outcome.result.answer # <<>>
        /\ IF extractAnswer(snapshot) = <<>>
           THEN outcome.result.answer = Placeholder /\ Len(outcome.result.sources) > 0
           ELSE outcome.result.answer = extractAnswer(snapshot)

\* C19 witness: the only event merged carried sources and no text; the
\* result has the placeholder as its answer.
C19_Witness ==
    /\ spc = "done"
    /\ folded = 1
    /\ "text" \notin DOMAIN snapshot
    /\ outcome.kind = "result"
    /\ outcome.result.answer = Placeholder
    /\ Len(outcome.result.sources) = 1

\* A success status of the transport (Response.ok).
SuccessStatus(n) == n \in 200 .. 299

\* C20: a search whose response had a non-success status has failed, with
\* AUTH for 401 and 403, RATE_LIMIT for 429 and NETWORK for any other, and
\* nothing of the stream was read, decoded or merged.
C20_StatusClassified ==
    (spc = "done" /\ "status" \in DOMAIN response /\ ~SuccessStatus(response["status"])) =>
        /\ outcome.kind = "error"
        /\ outcome.code = IF response["status"] \in {401, 403} THEN "AUTH"
                          ELSE IF response["status"] = 429 THEN "RATE_LIMIT"
                          ELSE "NETWORK"
        /\ rpc = "idle"
        /\ body = input
        /\ flushed = <<>>
        /\ yielded = <<>>
        /\ folded = 0
        /\ snapshot = EmptyObject

\* C20 witness: status 403 on a response whose stream holds a complete
\* event.
C20_Witness ==
    /\ spc = "done"
    /\ "status" \in DOMAIN response
    /\ response["status"] = 403
    /\ outcome.code = "AUTH"
    /\ input = Frame(<<"{", "T", "F", "}">>)

\* C21: one invocation sends one request: never more than one, and a search
\* that is over, with a result or with any failure, has sent exactly one.
C21_OneRequest ==
    /\ requests <= 1
    /\ spc # "idle" => requests = 1

\* C21 witness: the search failed after its stream had been read (a stream
\* error), having sent one request.
C21_Witness ==
    /\ spc = "done"
    /\ outcome.kind = "error"
    /\ outcome.code = "STREAM"
    /\ folded > 0
    /\ requests = 1

\* No event yielded by the decoder was terminal.
NoTerminalSeen == \A i \in 1 .. Len(yielded) : ~TerminalEvent(yielded[i])

\* C22: when the decoder ended at the end of the stream or at the sentinel
\* and no terminal event was seen, every event yielded has been merged and
\* the search ended with what the extraction gives for that snapshot, by the
\* rules that hold after a terminal event.
C22_CleanEndCompletes ==
    (/\ spc = "done"
     /\ rpc = "end"
     /\ ~raised
     /\ NoTerminalSeen
     /\ (DoneFlushed \/ body = <<>>))
        => /\ folded = Len(yielded)
           /\ outcome = Finish(snapshot)

\* C22 witness: the stream ended after one event that was not terminal, no
\* sentinel was sent, and the search returned a result.
C22_Witness ==
    /\ spc = "done"
    /\ rpc = "end"
    /\ ~aborted
    /\ ~DoneFlushed
    /\ body = <<>>
    /\ folded = 1
    /\ NoTerminalSeen
    /\ outcome.kind = "result"
    /\ outcome.result.answer = <<"o", "k">>

SourceRank(call) ==
    IF call \in {"loadToken", "clearToken"} THEN 1
    ELSE IF call = "extractFromDesktopApp" THEN 2
    ELSE 3

\* The calls made so far, without the saves.
Consulted == SelectSeq(authCalls, LAMBDA call : call # "saveToken")

\* The sources are consulted in the order cache, desktop app, OTP, each at
\* most once, and the desktop app is not read when borrowing is disabled.
InSourceOrder ==
    /\ authCalls # <<>> => authCalls[1] = "loadToken"
    /\ \A i, j \in 1 .. Len(Consulted) :
          i < j => /\ SourceRank(Consulted[i]) <= SourceRank(Consulted[j])
                   /\ Consulted[i] # Consulted[j]
    /\ borrowDisabled => \A i \in 1 .. Len(authCalls) : authCalls[i] # "extractFromDesktopApp"

\* A cache hit calls nothing but loadToken and leaves the store as it was.
CacheHitIsQuiet ==
    authResult.source = "cache"
        => /\ authCalls = <<"loadToken">>
           /\ store = storeAtCall
           /\ authResult.token = <<storeAtCall[1].access>>

OtpAttempted == \E i \in 1 .. Len(authCalls) : authCalls[i] = "loginWithEmailOtp"

C30_NoExpiredCached ==
    (apc = "returned" /\ authResult.source = "cache")
        => store[1].expires > loadedAt

(***************************************************************************)
(* Claims on the payloads of readSseEvents (checked under SpecStream and   *)
(* SpecTail).                                                              *)
(***************************************************************************)
\* The lines of a text that end with a newline, each without that newline
\* and without one carriage return before it.
RECURSIVE TerminatedLines(_)
TerminatedLines(text) ==
    LET i == IndexOf(text, NL)
    IN  IF i = 0 THEN <<>>
        ELSE LET raw == SubSeq(text, 1, i - 1)
             IN  <<IF raw # <<>> /\ raw[Len(raw)] = CR
                   THEN SubSeq(raw, 1, Len(raw) - 1) ELSE raw>>
                     \o TerminatedLines(SubSeq(text, i + 1, Len(text)))

\* What follows the last newline of a text.
RECURSIVE LastLine(_)
LastLine(text) ==
    LET i == IndexOf(text, NL)
    IN  IF i = 0 THEN text ELSE LastLine(SubSeq(text, i + 1, Len(text)))

\* A data: line without its prefix and the white space that follows it.
Remainder(line) == TrimStart(SubSeq(line, 6, Len(line)))

\* The payloads a list of lines gives: `out` are those closed by a blank
\* line, `open` are the remainders of the data: lines after the last one.
RECURSIVE PayloadScan(_, _, _)
PayloadScan(lines, open, out) ==
    IF lines = <<>> THEN [out |-> out, open |-> open]
    ELSE IF Head(lines) = <<>>
    THEN PayloadScan(Tail(lines), <<>>,
                     IF open = <<>> THEN out ELSE Append(out, JoinNL(open)))
    ELSE IF StartsWith(Head(lines), DataPrefix)
    THEN PayloadScan(Tail(lines), Append(open, Remainder(Head(lines))), out)
    ELSE PayloadScan(Tail(lines), open, out)

\* The decoder read the stream to its end and ended there.
ReadToEnd == rpc = "end" /\ body = <<>> /\ ~aborted /\ ~raised

\* The part of the stream's text the line loop has taken lines from.
Consumed == SubSeq(input, 1, Len(input) - Len(body) - Len(bufferedText))

\* C27: the payloads flushed by the line loop are, in order, one per blank
\* line that follows at least one data: line, made of the remainders of all
\* data: lines since the previous flush, prefix and leading white space
\* removed, joined with a newline; the lines since the last flush are held
\* for the next one; a blank line without data: line before it gives no
\* payload; and no payload gives more than one event.  The flush at the end
\* of the stream adds at most one payload.
C27_PayloadPerFlush ==
    LET scan == PayloadScan(TerminatedLines(Consumed), <<>>, <<>>)
    IN  /\ \/ flushed = scan.out /\ dataLines = scan.open
           \/ /\ rpc \in {"tailYield", "end"}
              /\ body = <<>>
              /\ dataLines = <<>>
              /\ Len(flushed) = Len(scan.out) + 1
              /\ SubSeq(flushed, 1, Len(scan.out)) = scan.out
        /\ Len(yielded) <= Len(flushed)

\* C27 witness: a blank line without data: line before it gave nothing, and
\* then a payload of two data: lines, joined with a newline, was flushed by
\* a blank line and gave one event.
C27_Witness ==
    /\ rpc = "yield"
    /\ Consumed = <<NL>> \o DataPrefix \o <<SP, "{", "a", NL>>
                       \o DataPrefix \o <<SP, "}", NL, NL>>
    /\ flushed = <<<<"{", "a", NL, "}">>>>
    /\ yielded = <<[text |-> <<"a">>]>>

\* The events readSseEvents yields for a stream that delivers `buf` and ends,
\* given the data lines held so far.
RECURSIVE EventsFrom(_, _)
EventsFrom(buf, dl) ==
    LET run == RunLines(buf, dl, <<>>, FALSE)
    IN  IF run.stop = "yield" THEN <<run.event>> \o EventsFrom(run.buf, run.dl)
        ELSE IF run.stop = "done" THEN <<>>
        ELSE LET tail == RunTail(run.buf, run.dl, <<>>)
             IN  IF tail.stop = "tailYield" THEN <<tail.event>> ELSE <<>>

EventsOf(text) == EventsFrom(text, <<>>)

\* The text ends with data: lines that no blank line follows.
EndsUnflushed(text) ==
    \/ PayloadScan(TerminatedLines(text), <<>>, <<>>).open # <<>>
    \/ StartsWith(LastLine(text), DataPrefix)

\* C28: when the stream ended with an unflushed payload, the events yielded
\* are those yielded for the same stream followed by a line terminator and a
\* blank line.
C28_FinalFlushAsBlankLine ==
    (ReadToEnd /\ EndsUnflushed(input))
        => yielded = EventsOf(input \o <<NL, NL>>)

(***************************************************************************)
(* Claims on concurrent searches (checked under SpecPair).                 *)
(***************************************************************************)
\* The snapshot a search run alone holds after taking the given events in
\* order, up to and including the first terminal one.
RECURSIVE FoldAlone(_, _)
FoldAlone(events, snap) ==
    IF events = <<>> THEN snap
    ELSE IF IsTerminal(Head(events)) THEN mergeEvent(snap, Head(events))
    ELSE FoldAlone(Tail(events), mergeEvent(snap, Head(events)))

\* What a search run alone on a response returns or throws.
OutcomeAlone(resp) ==
    IF resp.status # 200 THEN mapHttpError(resp.status)
    ELSE Finish(FoldAlone(resp.events, EmptyObject))

\* The events invocation c has taken from its decoder so far.
Taken(c) == SubSeq(given[c].events, 1, Len(given[c].events) - Len(pending[c]))

\* C25: whatever the interleaving of the two invocations, the snapshot of
\* each is the fold of the events it has itself taken, and once it has
\* ended its outcome is the one it gives when run alone on its response.
C25_CallsIndependent ==
    \A c \in Calls :
        /\ cpc[c] = "stream" => snapshots[c] = FoldAlone(Taken(c), EmptyObject)
        /\ cpc[c] = "done" => outcomes[c] = OutcomeAlone(given[c])

\* C25 witness: the second invocation ran from its first event to its result
\* while the first one was in the middle of its stream, and the two results
\* differ.
C25_Witness ==
    /\ cpc[1] = "stream"
    /\ Len(Taken(1)) = 1
    /\ Len(pending[1]) = 1
    /\ cpc[2] = "done"
    /\ Len(Taken(2)) = 2
    /\ outcomes[2].kind = "result"
    /\ outcomes[2] # OutcomeAlone(given[1])

\* The latest call of mergeEvent left every object and array that existed
\* when it was called as it was: its two arguments, their block lists, the
\* blocks, and the chunk, result and source lists under them.
ArgumentsKept == SubSeq(heap, 1, Len(prevHeap)) = prevHeap

\* The value the latest call returned is the one that the values of its two
\* arguments determine, whatever they share with each other or with
\* earlier results.
ResultByValue ==
    Deref(heap, accRef)
        = mergeEvent(Deref(prevHeap, prevAccRef), Deref(prevHeap, incRef))

\* A new object of the latest call refers to a chunk list of its arguments.
SharesChunks ==
    \E a \in 1 .. Len(prevHeap), b \in Len(prevHeap) + 1 .. Len(heap) :
        /\ prevHeap[a].kind = "vals"
        /\ prevHeap[a].items # <<>>
        /\ heap[b].kind = "obj"
        /\ Has(heap[b].fields, "chunks")
        /\ heap[b].fields.chunks = a

\* C26: mergeEvent, with the mergeBlocks and mergeMarkdownBlock calls it
\* makes, is pure: a call modifies neither its accumulated nor its incoming
\* argument, nor any block list, block or chunk list under them, and its
\* result is determined by the values of its arguments.
C26_MergePure == merges > 0 => ArgumentsKept /\ ResultByValue

\* The third call merged into a keyed block whose chunk list the result
\* shares with the accumulated argument.
C26_Witness ==
    /\ merges = MaxHeapMerges
    /\ SharesChunks
    /\ Has(Deref(heap, accRef), "blocks")
    /\ Len(Deref(heap, accRef).blocks) > 1
    /\ ArgumentsKept

\* The MarkdownPayload of a block, {} when the block carries none.
PayloadOf(block) == OrElse(block, "markdown_block", EmptyObject)

\* The chunk list of a MarkdownPayload, empty when it holds none.
ChunksOf(md) == OrElse(md, "chunks", <<>>)

\* The block carries neither a materialized answer nor a chunk list.
CarriesNoText(block) ==
    ~Has(PayloadOf(block), "answer") /\ ~Has(PayloadOf(block), "chunks")

\* The positions of the accumulated blocks that hold a MarkdownPayload and
\* whose key is the key of blocks of the latest event, none of which carries
\* a materialized answer or a chunk list.
MergedWithoutText ==
    IF folded > 0 /\ Has(prevSnapshot, "blocks") /\ Has(lastIncoming, "blocks")
    THEN {i \in 1 .. Len(prevSnapshot.blocks) :
            LET acc == prevSnapshot.blocks[i]
            IN  /\ ~Unkeyed(acc)
                /\ Has(acc, "markdown_block")
                /\ SameKey(acc.intended_usage) # {}
                /\ \A j \in SameKey(acc.intended_usage) :
                       CarriesNoText(lastIncoming.blocks[j])}
    ELSE {}

SameAnswer(before, after) ==
    /\ Has(before, "answer") <=> Has(after, "answer")
    /\ Has(before, "answer") => after.answer = before.answer

\* C37 as stated: merging incoming blocks that carry neither a materialized
\* answer nor a chunk list leaves the materialized answer and the chunk
\* list of the accumulated block with their key unchanged.
C37_AnswerAndChunksKept ==
    \A i \in MergedWithoutText :
        LET before == PayloadOf(prevSnapshot.blocks[i])
            after == PayloadOf(snapshot.blocks[i])
        IN  /\ ChunksOf(after) = ChunksOf(before)
            /\ SameAnswer(before, after)

\* C37 amended: such a merge leaves the chunk list of the accumulated block
\* unchanged; its materialized answer is unchanged when that chunk list is
\* empty and is the concatenation of the chunk list otherwise.
C37_ChunksKeptAnswerRejoined ==
    \A i \in MergedWithoutText :
        LET before == PayloadOf(prevSnapshot.blocks[i])
            after == PayloadOf(snapshot.blocks[i])
        IN  /\ ChunksOf(after) = ChunksOf(before)
            /\ IF ChunksOf(before) = <<>> THEN SameAnswer(before, after)
               ELSE Has(after, "answer") /\ after.answer = JoinEmpty(ChunksOf(before))

\* A block without text was merged into an accumulated block whose
\* materialized answer was not the concatenation of its chunks.
C37_Witness ==
    \E i \in MergedWithoutText :
        LET before == PayloadOf(prevSnapshot.blocks[i])
            after == PayloadOf(snapshot.blocks[i])
        IN  /\ Has(before, "answer")
            /\ before.answer = <<"x">>
            /\ ChunksOf(before) = <<<<"a">>, <<"b">>>>
            /\ after.answer = <<"a", "b">>
            /\ ChunksOf(after) = ChunksOf(before)

(***************************************************************************)
(* Claims on the chunks of the byte stream (checked under SpecChunks).     *)
(***************************************************************************)
\* The sequence `s` is the beginning of the sequence `t`.
IsPrefixOf(s, t) == Len(s) <= Len(t) /\ SubSeq(t, 1, Len(s)) = s

\* The decoder ended by itself: no read failed and no cancellation was seen.
EndedByItself == rpc = "end" /\ ~aborted /\ ~raised

\* C36: the events yielded depend on the text of the stream only, not on the
\* chunks it arrives in: whatever the sizes of the chunks read so far, the
\* events yielded are the first of those the whole text gives when it is
\* read as one chunk, and they are all of them once the decoder has ended
\* by itself.
C36_ChunkingIrrelevant ==
    /\ IsPrefixOf(yielded, EventsOf(input))
    /\ EndedByItself => yielded = EventsOf(input)

\* A chunk ended inside the data: prefix of the CRLF frame after the event
\* of the first frame was yielded, and the next chunk is awaited.
C36_Witness ==
    /\ rpc = "read"
    /\ bufferedText = <<"d", "a">>
    /\ yielded = <<[text |-> <<"a">>]>>
    /\ body = <<"t", "a", ":", "{", "b", "}", CR, NL, CR, NL>>
    /\ ~aborted

(***************************************************************************)
(* Claims on the reader's lock (checked under Spec).                       *)
(***************************************************************************)
\* C38: the decoder holds the lock of the byte stream only while it is
\* suspended at a read or at a yield: once it has ended (after the
\* sentinel, at the end of the stream, on cancellation, on a failed read, or
\* because the consumer left its loop after a terminal event) and once the
\* search is over, the stream is not locked.
C38_LockReleased ==
    /\ locked => rpc \in {"read", "yield", "tailYield"}
    /\ rpc = "end" => ~locked
    /\ spc = "done" => ~locked

\* The consumer left its loop after a terminal event while the stream had
\* more to deliver, and the lock taken before was released.
C38_Witness ==
    /\ spc = "done"
    /\ rpc = "end"
    /\ ~locked
    /\ ~aborted
    /\ ~raised
    /\ body # <<>>
    /\ yielded # <<>>
    /\ IsTerminal(yielded[Len(yielded)])

(***************************************************************************)
(* Claims on termination (checked under SpecLive).                         *)
(***************************************************************************)
SearchErrorCodes == {"AUTH", "RATE_LIMIT", "NETWORK", "STREAM", "EMPTY"}

\* The search is over with one outcome, a result or a classified error, and
\* the decoder, if it was started, has ended.
Settled ==
    /\ spc = "done"
    /\ rpc \in {"idle", "end"}
    /\ \/ outcome.kind = "result"
       \/ outcome.kind = "error" /\ outcome.code \in SearchErrorCodes

\* Every step of the search other than the caller raising the signal moves
\* the search on.
StepsMoveOn == [][aborted' = aborted => progress' # progress]_vars

\* C40: for every stream text, and so without cancellation, the decoder ends
\* and the search reaches one terminal outcome, a returned result or a
\* SearchError with one of the codes AUTH, RATE_LIMIT, NETWORK, STREAM and
\* EMPTY, and keeps that outcome.
C40_Terminates ==
    /\ <>[]Settled
    /\ [][spc = "done" => spc' = "done" /\ outcome' = outcome]_vars

\* A stream was read to its end without cancellation and the search
\* returned a result.
C40_Witness ==
    /\ Settled
    /\ ~aborted
    /\ rpc = "end"
    /\ body = <<>>
    /\ input # <<>>
    /\ outcome.kind = "result"

(***************************************************************************)
(* C39: one execution of perplexity_search.                                *)
(***************************************************************************)
\* The step of execute that calls searchPerplexity.
SearchIssued == searched' # searched /\ searched' # <<>>

\* The step that ends an execution whose authenticate or search failed.
EndsInFailure ==
    /\ tpc # "done"
    /\ tpc' = "done"
    /\ \/ tpc = "auth" /\ apc = "threw"
       \/ tpc = "search" /\ outcome'.kind # "result"

\* C39: in one execution of perplexity_search the search is issued only by
\* the step that finds authenticate returned, with the token it returned and
\* with the signal not raised at that step; an execution whose authenticate
\* threw ends without a search; the search settles only after it was issued;
\* and an execution that fails, by an AuthError, a SearchError or another
\* exception, returns a result marked isError.
C39_SearchOnlyWithToken ==
    [][/\ SearchIssued =>
            /\ tpc = "auth" /\ apc = "returned" /\ authResult.kind = "token"
            /\ searched' = <<authResult.token[1]>>
            /\ ~toolAborted
       /\ (tpc = "auth" /\ apc = "threw" /\ tpc' # tpc) => tpc' = "done" /\ searched' = <<>>
       /\ (outcome' # outcome /\ outcome'.kind # "pending") =>
             tpc = "search" /\ searched # <<>>
       /\ EndsInFailure => isError' /\ toolOut' # "pending"]_vars

\* An execution called searchPerplexity, which threw an exception that is not
\* a SearchError, and returned an error result.
C39_Witness ==
    /\ tpc = "done"
    /\ searched # <<>>
    /\ outcome = OtherException
    /\ isError
    /\ toolOut = "search failed"

(***************************************************************************)
(* C32: what authenticate has saved when it settles.                       *)
(***************************************************************************)
Saves == SelectSeq(authCalls, LAMBDA call : call = "saveToken")

\* C32: when authenticate returns a token it took from the desktop app or
\* from the OTP login, the store holds exactly that token, saveToken was
\* called once, as the last thing before the return, and a token of the OTP
\* login is stored with the email; when authenticate throws, saveToken was not
\* called and the store holds what it held at the call or nothing.
C32_SavedOnceBeforeReturn ==
    /\ (apc = "returned" /\ authResult.source \in {"desktop", "otp"}) =>
          /\ Len(Saves) = 1
          /\ authCalls[Len(authCalls)] = "saveToken"
          /\ store # <<>>
          /\ store[1].access = authResult.token[1]
          /\ authResult.source = "otp" =>
                Has(store[1], "email") /\ store[1].email = "user@example.com"
    /\ apc = "threw" =>
          /\ Saves = <<>>
          /\ store \in {<<>>, storeAtCall}

\* authenticate has returned a token of the OTP login, stored with the email.
C32_Witness ==
    /\ apc = "returned"
    /\ authResult.source = "otp"
    /\ store # <<>>
    /\ Has(store[1], "email")
    /\ Len(Saves) = 1

(***************************************************************************)
(* C31: the requests of the email OTP login.                               *)
(***************************************************************************)
FlowOrder ==
    <<[method |-> "GET", path |-> "/csrf"], [method |-> "POST", path |-> "/signin-email"],
      [method |-> "POST", path |-> "/signin-otp"], [method |-> "GET", path |-> "/session"]>>

Sent == [i \in 1 .. Len(fetches) |-> [method |-> fetches[i].method, path |-> fetches[i].path]]

\* Request i failed: it was rejected, answered with a non-OK status, or (the
\* first) answered without a CSRF token.
StepFailed(i) ==
    \/ fetches[i].reply.rejected
    \/ ~fetches[i].reply.ok
    \/ i = 1 /\ CsrfTokenOf(fetches[i].reply.payload) = <<>>

Invoked(name) == \E i \in 1 .. Len(prompted) : prompted[i] = name

\* The body is an object whose "token" is a Perplexity token.
CarriesToken(payload) ==
    /\ payload.type = "object"
    /\ \E i \in 1 .. Len(payload.entries) :
          /\ payload.entries[i].key = "token"
          /\ payload.entries[i].value.type = "string"
          /\ payload.entries[i].value.likely

\* C31: the requests of the OTP login are sent in the order GET /csrf, POST
\* /signin-email, POST /signin-otp (then GET /session); the OTP code is asked
\* for only after /signin-email was answered OK; no request follows a failed
\* one, nor a missing OTP code; and when the body of the /signin-otp response
\* carries the token, these three requests are all that is sent.
C31_RequestOrder ==
    /\ IsPrefixOf(Sent, FlowOrder)
    /\ (Invoked("promptForOtp") \/ otpCode # <<>>) => Len(fetches) >= 2 /\ ~StepFailed(2)
    /\ \A i \in 1 .. Len(fetches) - 1 : ~StepFailed(i)
    /\ Len(fetches) >= 3 => otpCode # <<>>
    /\ (Len(fetches) >= 3 /\ ~StepFailed(3) /\ CarriesToken(fetches[3].reply.payload)) =>
          Len(fetches) = 3 /\ loginSettled = "token"

\* The login has returned the token of the body of the /signin-otp response,
\* with the code taken from the prompt.
C31_Witness ==
    /\ loginSettled = "token"
    /\ apc = "returned"
    /\ Len(fetches) = 3
    /\ CarriesToken(fetches[3].reply.payload)
    /\ Invoked("promptForOtp")

(***************************************************************************)
(* C33: how a failed OTP fallback is reported.                             *)
(***************************************************************************)
\* The last request failed, or /session was answered OK without a token.
FlowFailed ==
    /\ fetches # <<>>
    /\ \/ StepFailed(Len(fetches))
       \/ /\ Len(fetches) = 4
          /\ extractTokenFromPayload(fetches[4].reply.payload) = <<>>
          /\ extractTokenFromCookies(fetches[4].reply.setCookies, cookieJar) = <<>>

\* C33: authenticate throws NO_TOKEN when no token was found (none expired
\* either) and neither the environment nor the prompt gives an email, and
\* when /signin-email was answered OK and neither gives an OTP code; a
\* request of the flow that fails, and a flow that ends without a token, are
\* thrown as EXTRACTION_FAILED; a value of PI_PERPLEXITY_EMAIL or
\* PI_PERPLEXITY_OTP is the one used, and its prompt is not invoked.
C33_OtpFailureCodes ==
    /\ (apc = "threw" /\ emailGiven = <<>> /\ ~sawExpiredToken) =>
          authResult.code = "NO_TOKEN" /\ fetches = <<>>
    /\ (apc = "threw" /\ Len(fetches) = 2 /\ ~StepFailed(2)) =>
          otpCode = <<>> /\ authResult.code = "NO_TOKEN"
    /\ (apc = "threw" /\ FlowFailed) => authResult.code = "EXTRACTION_FAILED"
    /\ normalizeInput(processEnv.PI_PERPLEXITY_EMAIL) # <<>> =>
          /\ ~Invoked("promptForEmail")
          /\ apc # "email" => emailGiven = normalizeInput(processEnv.PI_PERPLEXITY_EMAIL)
    /\ normalizeInput(processEnv.PI_PERPLEXITY_OTP) # <<>> =>
          /\ ~Invoked("promptForOtp")
          /\ Len(fetches) >= 3 => otpCode = normalizeInput(processEnv.PI_PERPLEXITY_OTP)

\* The email came from the environment, the OTP email was sent, and the
\* prompt gave no code.
C33_Witness ==
    /\ apc = "threw"
    /\ authResult.code = "NO_TOKEN"
    /\ normalizeInput(processEnv.PI_PERPLEXITY_EMAIL) # <<>>
    /\ Len(fetches) = 2
    /\ Invoked("promptForOtp")
    /\ otpCode = <<>>

(***************************************************************************)
(* C34: what /perplexity-login does with its arguments.                    *)
(***************************************************************************)
\* The step in which the handler of /perplexity-login runs.
CommandRuns == apc = "idle" /\ (commandArgs' # commandArgs \/ apc' # apc)

GivenArgs == SelectSeq(commandArgs', LAMBDA token : token # "")
ForceGiven == \E i \in 1 .. Len(GivenArgs) : GivenArgs[i] \in {"--force", "--refresh", "-f"}
HelpGiven == \E i \in 1 .. Len(GivenArgs) : GivenArgs[i] = "--help"
UnknownGiven ==
    \E i \in 1 .. Len(GivenArgs) : GivenArgs[i] \notin {"--force", "--refresh", "-f", "--help"}

\* C34: a run of /perplexity-login changes the token store only when a force
\* flag is among its arguments, and then empties it; with --help or with an
\* argument that is none of the flags, the store is left alone and
\* authenticate is not called; otherwise authenticate is called, and with a
\* force flag it is called on the emptied store.
C34_ForceClearsFirst ==
    [][CommandRuns =>
          /\ store' # store => ForceGiven /\ store' = <<>>
          /\ (HelpGiven \/ UnknownGiven) => store' = store /\ apc' = "idle"
          /\ ~(HelpGiven \/ UnknownGiven) =>
                /\ apc' = "load"
                /\ ForceGiven => store' = <<>> /\ storeAtCall' = <<>>]_vars

\* The command was given -f after a blank: authenticate starts on a cleared store.
C34_Witness ==
    /\ commandArgs = <<"", "-f">>
    /\ apc = "load"
    /\ caller = "command"
    /\ store = <<>>
    /\ authCalls = <<>>

(***************************************************************************)
(* C35: the fixed parts of the request body.                               *)
(***************************************************************************)
\* C35: the body of every search request sent has is_incognito = true and
\* has a search_recency_filter, equal to the recency the caller gave, or null
\* when the caller gave none.
C35_IncognitoAndRecency ==
    requestBody # EmptyObject =>
        /\ "is_incognito" \in DOMAIN requestBody.params
        /\ requestBody.params.is_incognito = JsTrue
        /\ "search_recency_filter" \in DOMAIN requestBody.params
        /\ requestBody.params.search_recency_filter =
              IF "recency" \in DOMAIN searchParams
              THEN Str(searchParams.recency) ELSE JsNull

\* A request was sent for a caller that gave no recency.
C35_Witness ==
    /\ requestBody # EmptyObject
    /\ "recency" \notin DOMAIN searchParams
    /\ "search_recency_filter" \in DOMAIN requestBody.params

====
